---- MODULE Spec2Model ----
(***************************************************************************)
(* Sync engine of the financial data ingest adapter                        *)
(* (src/adapter/sync/engine.py) together with the collaborators its        *)
(* correctness depends on: the Redis lock key, the chunked upload store    *)
(* (src/external_bank/storage.py), the ClickHouse staging and fact tables  *)
(* (src/adapter/clickhouse_manager.py), the existing-loans cache           *)
(* (src/adapter/validators/cross_validators.py, src/core/cache.py) and the *)
(* sync_logs table (src/adapter/models.py).                                *)
(*                                                                         *)
(* One tenant is modelled.  Every invocation of SyncEngine.sync is a       *)
(* process; its batch_id is the process number.  Every collaborator call   *)
(* may raise, which the actions model as alternative outcomes.             *)
(***************************************************************************)
EXTENDS Integers, Sequences, FiniteSets, TLC

\* ------------------------------------------------------------------ bounds
\* rows per upload chunk (50_000 in the source, scaled)
CHUNK_SIZE == 2
\* lock TTL in seconds (600 in the source, scaled so that the wait loop of
\* sync polls SYNC_LOCK_TTL / 2 times, rounded up)
SYNC_LOCK_TTL == 4
\* collaborator calls that fail in one behaviour
MaxFaults == 1
\* lock keys that reach their TTL while their holder is still inside sync,
\* in one behaviour
MaxExpiries == 1
\* worker processes killed in the middle of sync in one behaviour
MaxKills == 1

\* ------------------------------------------------------- program constants
\* time.sleep(2) of the wait loop
POLL_SECONDS == 2
\* MAX_ERROR_RATE = 0.50, as the fraction MAX_ERROR_RATE_NUM / MAX_ERROR_RATE_DEN
MAX_ERROR_RATE_NUM == 50
MAX_ERROR_RATE_DEN == 100

\* The two invocations of sync of a behaviour, named by their batch_id:
\* every claim is about one invocation or about a pair of them.
Procs == {1, 2}
LoanTypes == {"RETAIL", "COMMERCIAL"}
FileTypes == {"credit", "payment_plan"}
NoHolder == 0
\* SyncLog(...): the model fields of adapter.models.SyncLog with their defaults
SyncLog(status, reason) ==
    [status |-> status, reason |-> reason,
     total_credit_rows |-> 0, total_payment_rows |-> 0,
     valid_credit_rows |-> 0, valid_payment_rows |-> 0, error_count |-> 0]
\* no row in sync_logs / no object yet
NoRow == SyncLog("NONE", "")
NoCache == [hit |-> FALSE, loans |-> {}]
\* batch_id of the rows loaded before the behaviour starts
OldBatch == 0

Min(a, b) == IF a < b THEN a ELSE b

\* ------------------------------------------------------------ upload store
\* The chunks store_data writes for a list of records: slices of CHUNK_SIZE.
Chunks(records) ==
    LET n == (Len(records) + CHUNK_SIZE - 1) \div CHUNK_SIZE
    IN  [i \in 1..n |-> SubSeq(records, (i - 1) * CHUNK_SIZE + 1,
                                        Min(i * CHUNK_SIZE, Len(records)))]

\* The keys store_data leaves for one (tenant, loan_type, file_type).
store_data(records) ==
    [chunks |-> Chunks(records), count |-> Len(records),
     nchunks |-> Len(Chunks(records))]

\* The keys after clear_data(tenant, loan_type, file_type).
clear_data == [chunks |-> <<>>, count |-> 0, nchunks |-> 0]

\* _redis.get(chunk_key(i)) of get_data_iter: the chunk, or <<>> when the
\* key is gone (a missing chunk is skipped, as is an empty one).
get_chunk(stored, i) ==
    IF i <= Len(stored.chunks) THEN stored.chunks[i] ELSE <<>>

\* ------------------------------------------------------------ input rows
CreditRow(loan, ctype) == [loan_account_number |-> loan, customer_type |-> ctype]
PaymentRow(loan, inst) == [loan_account_number |-> loan, installment_number |-> inst]

\* The uploads a behaviour may start with (the same files for both loan
\* types).  Fields not listed are taken to be valid.  The warehouse holds
\* loan LA (SeededCredit); LX is in no credit file and in no partition.
Datasets ==
    { [credit |-> <<CreditRow("LB", "I"), CreditRow("LC", "X"), CreditRow("LC", "T")>>,
       payment_plan |-> <<PaymentRow("LA", 1), PaymentRow("LB", 1), PaymentRow("LB", 0)>>],
      [credit |-> <<CreditRow("", "I"), CreditRow("LB", "V")>>,
       payment_plan |-> <<>>],
      [credit |-> <<CreditRow("LB", "V")>>,
       payment_plan |-> <<PaymentRow("LX", 1), PaymentRow("LB", 0)>>] }

\* CreditFieldValidator.validate_row on the modelled fields: the required
\* loan_account_number and the customer_type enumeration.
CreditRowIsValid(row) ==
    /\ row.loan_account_number # ""
    /\ row.customer_type \in {"I", "T", "V"}

\* PaymentFieldValidator.validate_row on the modelled fields: the required
\* loan_account_number and installment_number >= 1.
PaymentRowIsValid(row) ==
    /\ row.loan_account_number # ""
    /\ row.installment_number >= 1

\* ------------------------------------------------------------ warehouse
\* A stored row: batch_id, the partition key, the loan id and the position
\* of the source row in its file (the physical identity of the row).
FactRow(b, lt, loan, n, inst) ==
    [batch_id |-> b, loan_type |-> lt, loan_account_number |-> loan,
     row |-> n, installment_number |-> inst]

Partition(table, lt) == {r \in table : r.loan_type = lt}

\* ALTER TABLE fact REPLACE PARTITION lt FROM staging
ReplacePartition(fact, staging, lt) ==
    {r \in fact : r.loan_type # lt} \cup Partition(staging, lt)

\* SELECT DISTINCT loan_account_number FROM fact_credit WHERE loan_type = lt
DistinctLoanIds(fact, lt) == {r.loan_account_number : r \in Partition(fact, lt)}

\* the partitions loaded by an earlier batch
SeededCredit == {FactRow(OldBatch, lt, "LA", 1, 0) : lt \in LoanTypes}
SeededPayment == {FactRow(OldBatch, lt, "LA", 1, 1) : lt \in LoanTypes}

\* ------------------------------------------------------------ error gate
\* (total_rows - valid_credit_count - valid_payment_count) / total_rows
\*     > MAX_ERROR_RATE, with total_rows > 0
ErrorRateExceeds_GE(total_rows, valid_rows) ==
    /\ total_rows > 0
    /\ (total_rows - valid_rows) * MAX_ERROR_RATE_DEN >= MAX_ERROR_RATE_NUM * total_rows

ErrorRateExceeds(total_rows, valid_rows) ==
    /\ total_rows > 0
    /\ (total_rows - valid_rows) * MAX_ERROR_RATE_DEN > MAX_ERROR_RATE_NUM * total_rows

VARIABLES
    inv,            \* per invocation: position and local variables of sync
    sync_log,       \* per invocation: the in-memory SyncLog object
    sync_logs,      \* per invocation: its row in the sync_logs table
    lock,           \* per loan type: value of sync_lock:{tenant}:{loan_type}
    upload,         \* per loan type and file type: the extbank: keys
    staging_credit, staging_payment,
    fact_credit, fact_payment,
    cache,          \* per loan type: the existing_loans cache entry
    files,          \* the credit and payment files the bank uploads
    hist,           \* per invocation: history (what it staged, replaced,
                    \* and the fact tables when it was called)
    faults,         \* collaborator calls that have failed so far
    expiries,       \* lock keys that have expired so far
    extbank,        \* the extbank: keys of every tenant, key by key
    call            \* the last call of a function checked on its own:
                    \* its name, its arguments and what it returned

\* the state of one sync engine and its collaborators
sync_vars == <<inv, sync_log, sync_logs, lock, upload, staging_credit,
               staging_payment, fact_credit, fact_payment, cache, files, hist,
               faults, expiries>>

\* the state the sync engine never reads or writes
aside == <<extbank, call>>

vars == <<inv, sync_log, sync_logs, lock, upload, staging_credit,
          staging_payment, fact_credit, fact_payment, cache, files, hist,
          faults, expiries, extbank, call>>

warehouse == <<staging_credit, staging_payment, fact_credit, fact_payment>>

InitInv ==
    [pc |-> "idle", loan_type |-> "RETAIL", wait_for_lock |-> FALSE,
     acquired |-> FALSE, waited |-> 0, raised |-> FALSE,
     total_credits |-> 0, total_payments |-> 0,
     valid_credit_count |-> 0, valid_payment_count |-> 0,
     credit_error_count |-> 0, payment_error_count |-> 0,
     valid_loan_ids |-> {}, all_valid_loans |-> {},
     num_chunks |-> 0, chunk_i |-> 0, global_row_idx |-> 0]

InitHist ==
    [staged_credit |-> {}, staged_payment |-> {}, replaced |-> {},
     existing |-> {}, fact_credit |-> {}, fact_payment |-> {},
     concurrent |-> {}, held_when_killed |-> FALSE,
     query_failed |-> FALSE, cross_errors |-> {},
     field_valid |-> {}, cross_rows |-> {}]

\* no function has been called yet
NoCall == [fn |-> "none"]

SyncInit ==
    /\ inv = [p \in Procs |-> InitInv]
    /\ sync_log = [p \in Procs |-> NoRow]
    /\ sync_logs = [p \in Procs |-> NoRow]
    /\ lock = [lt \in LoanTypes |-> NoHolder]
    /\ files \in Datasets
    /\ upload = [lt \in LoanTypes |-> [ft \in FileTypes |-> store_data(files[ft])]]
    /\ staging_credit = {}
    /\ staging_payment = {}
    /\ fact_credit = SeededCredit
    /\ fact_payment = SeededPayment
    /\ cache = [lt \in LoanTypes |-> NoCache]
    /\ hist = [p \in Procs |-> InitHist]
    /\ faults = 0
    /\ expiries = 0

Init ==
    /\ SyncInit
    /\ extbank = <<>>
    /\ call = NoCall

\* ------------------------------------------------------------ helpers
\* every call of the step succeeds / one call of the step fails
Ok == UNCHANGED faults
Fail == faults < MaxFaults /\ faults' = faults + 1

\* The local variables of sync that are read again after the streaming
\* phases; the others are set back to their initial values once dead.
Locals(p, label) ==
    [InitInv EXCEPT !.pc = label, !.loan_type = inv[p].loan_type,
                    !.wait_for_lock = inv[p].wait_for_lock,
                    !.acquired = inv[p].acquired,
                    !.raised = inv[p].raised,
                    !.total_credits = inv[p].total_credits,
                    !.total_payments = inv[p].total_payments,
                    !.valid_credit_count = inv[p].valid_credit_count,
                    !.valid_payment_count = inv[p].valid_payment_count,
                    !.credit_error_count = inv[p].credit_error_count,
                    !.payment_error_count = inv[p].payment_error_count]

\* control moves on between two phases
Goto(p, label) == inv' = [inv EXCEPT ![p] = Locals(p, label)]

\* the local variables once control has left the pipeline
Left(p, label) ==
    [Locals(p, label) EXCEPT !.total_credits = 0, !.total_payments = 0,
                             !.valid_credit_count = 0, !.valid_payment_count = 0,
                             !.credit_error_count = 0, !.payment_error_count = 0]

\* an exception inside the try block: control moves to the except clause,
\* which reads no local variable but sync_log and loan_type
Raise(p) == Fail /\ inv' = [inv EXCEPT ![p] = Left(p, "except")]

\* an exception outside the try block leaves sync at once
Escape(p) ==
    Fail /\ inv' = [inv EXCEPT ![p] = [Left(p, "escaped") EXCEPT !.raised = TRUE]]

\* sync_log.save(): the row takes every field of the in-memory object
Save(p, obj) == sync_logs' = [sync_logs EXCEPT ![p] = obj]

\* _update_status: status is set in memory and only that column is saved
UpdateStatus(p, status) ==
    /\ sync_log' = [sync_log EXCEPT ![p].status = status]
    /\ sync_logs' = [sync_logs EXCEPT ![p].status = status]

\* ------------------------------------------------------------ lock phase
\* the invocations for loan type lt that were called and have not left sync
Running(lt) ==
    {q \in Procs : /\ inv[q].loan_type = lt
                   /\ inv[q].pc \notin {"idle", "done", "escaped", "killed"}}

\* engine.py 82-99, first r.set(lock_key, batch_id, nx=True, ex=TTL).
\* Invocations are numbered in the order of their calls, and the first one
\* is the RETAIL one (the two loan types start alike).
Call(p, lt, w) ==
    /\ inv[p].pc = "idle"
    /\ \A q \in Procs : q < p => inv[q].pc # "idle"
    /\ p = 1 => lt = "RETAIL"
    /\ hist' = [hist EXCEPT ![p].fact_credit = Partition(fact_credit, lt),
                            ![p].fact_payment = Partition(fact_payment, lt),
                            ![p].concurrent = Running(lt)]
    /\ \/ /\ lock[lt] = NoHolder
          /\ lock' = [lock EXCEPT ![lt] = p]
          \* wait_for_lock is not read again once the key is set
          /\ inv' = [inv EXCEPT ![p].loan_type = lt,
                                ![p].acquired = TRUE, ![p].pc = "open_log"]
          /\ Ok
       \/ /\ lock[lt] # NoHolder
          /\ UNCHANGED lock
          /\ inv' = [inv EXCEPT ![p].loan_type = lt, ![p].wait_for_lock = w,
                                ![p].pc = IF w THEN "waiting" ELSE "reject"]
          /\ Ok
       \/ \* the lock store is unreachable: r.set raises
          /\ UNCHANGED lock
          /\ Fail
          /\ inv' = [inv EXCEPT ![p].loan_type = lt,
                                ![p].pc = "escaped", ![p].raised = TRUE]
    /\ UNCHANGED <<sync_log, sync_logs, upload, warehouse, cache, expiries, files, aside>>

\* engine.py 92: the wait loop goes on while the key was not set and
\* waited < SYNC_LOCK_TTL
KeepsWaiting_Once(waited) == FALSE

KeepsWaiting(waited) == waited < SYNC_LOCK_TTL

\* engine.py 93-96, one turn of the wait loop: sleep, count, set again
\* (waited is last read by the log message of line 97)
Poll(p) ==
    /\ inv[p].pc = "waiting"
    /\ LET lt == inv[p].loan_type
           w  == inv[p].waited + POLL_SECONDS
       IN  \/ /\ lock[lt] = NoHolder
              /\ lock' = [lock EXCEPT ![lt] = p]
              /\ inv' = [inv EXCEPT ![p].waited = w, ![p].acquired = TRUE,
                                    ![p].wait_for_lock = FALSE,
                                    ![p].pc = "open_log"]
              /\ Ok
           \/ /\ lock[lt] # NoHolder
              /\ UNCHANGED lock
              /\ inv' = [inv EXCEPT
                    ![p].waited = IF KeepsWaiting(w) THEN w ELSE 0,
                    ![p].pc = IF KeepsWaiting(w) THEN "waiting" ELSE "reject"]
              /\ Ok
           \/ \* the lock store is unreachable: r.set raises
              /\ UNCHANGED lock
              /\ Escape(p)
    /\ UNCHANGED <<sync_log, sync_logs, upload, warehouse, cache, hist,
                   expiries, files, aside>>

\* engine.py 101-114, the lock was not acquired
Reject_Releases(p) ==
    /\ inv[p].pc = "reject"
    /\ sync_log' = [sync_log EXCEPT ![p] = SyncLog("FAILED", "Concurrent sync in progress")]
    /\ \/ Save(p, sync_log'[p]) /\ Goto(p, "rejected") /\ Ok
       \/ UNCHANGED sync_logs /\ Escape(p)
    /\ lock' = [lock EXCEPT ![inv[p].loan_type] = NoHolder]
    /\ UNCHANGED <<upload, warehouse, cache, hist, expiries, files, aside>>

Reject(p) ==
    /\ inv[p].pc = "reject"
    /\ sync_log' = [sync_log EXCEPT ![p] = SyncLog("FAILED", "Concurrent sync in progress")]
    /\ \/ Save(p, sync_log'[p]) /\ Goto(p, "rejected") /\ Ok
       \/ UNCHANGED sync_logs /\ Escape(p)
    /\ UNCHANGED <<lock, upload, warehouse, cache, hist, expiries, files, aside>>

\* engine.py 114: return sync_log of the invocation that did not acquire
\* the lock (no finally clause is pending: the try block was never entered)
Return(p) ==
    /\ inv[p].pc = "rejected"
    /\ Goto(p, "done")
    /\ UNCHANGED <<sync_log, sync_logs, lock, upload, warehouse, cache, hist,
                   faults, expiries, files, aside>>

\* engine.py 116-122, the STARTED row (before the try block)
OpenLog(p) ==
    /\ inv[p].pc = "open_log"
    /\ sync_log' = [sync_log EXCEPT ![p] = SyncLog("STARTED", "")]
    /\ \/ Save(p, sync_log'[p]) /\ Goto(p, "counts") /\ Ok
       \/ UNCHANGED sync_logs /\ Escape(p)
    /\ UNCHANGED <<lock, upload, warehouse, cache, hist, expiries, files, aside>>

\* r.set(..., ex=SYNC_LOCK_TTL): a key that is set carries a TTL
Expires_NoTTL(holder) == FALSE

Expires(holder) == holder # NoHolder

\* the lock key reaches its TTL and Redis drops it, whether its holder is
\* still inside sync (the key is never renewed) or not
LockExpire(lt) ==
    /\ Expires(lock[lt])
    /\ IF lock[lt] \in Running(lt)
          THEN expiries < MaxExpiries /\ expiries' = expiries + 1
          ELSE UNCHANGED expiries
    /\ lock' = [lock EXCEPT ![lt] = NoHolder]
    /\ UNCHANGED <<inv, sync_log, sync_logs, upload, warehouse, cache, hist, faults,
                   files, aside>>

\* the worker process is killed (SIGKILL, out of memory, host loss) at any
\* point after r.set succeeded: no except or finally clause runs
Kill(p) ==
    /\ inv[p].acquired
    /\ inv[p].pc \notin {"idle", "done", "escaped", "killed"}
    /\ Cardinality({q \in Procs : inv[q].pc = "killed"}) < MaxKills
    /\ inv' = [inv EXCEPT ![p] = Left(p, "killed")]
    /\ hist' = [hist EXCEPT ![p].held_when_killed = (lock[inv[p].loan_type] = p)]
    /\ UNCHANGED <<sync_log, sync_logs, lock, upload, warehouse, cache,
                   faults, expiries, files, aside>>

\* ------------------------------------------------------------ pipeline
\* engine.py 125-130
ReadCounts(p) ==
    /\ inv[p].pc = "counts"
    /\ LET lt == inv[p].loan_type
           tc == upload[lt]["credit"].count
           tp == upload[lt]["payment_plan"].count
           obj == [sync_log[p] EXCEPT !.total_credit_rows = tc,
                                      !.total_payment_rows = tp]
       IN  \/ /\ sync_log' = [sync_log EXCEPT ![p] = obj]
              /\ Save(p, obj)
              /\ inv' = [inv EXCEPT ![p].total_credits = tc,
                                    ![p].total_payments = tp, ![p].pc = "credits"]
              /\ Ok
           \/ \* fetch_row_count raises
              /\ UNCHANGED <<sync_log, sync_logs>> /\ Raise(p)
           \/ \* sync_log.save() raises
              /\ sync_log' = [sync_log EXCEPT ![p] = obj]
              /\ UNCHANGED sync_logs
              /\ Raise(p)
    /\ UNCHANGED <<lock, upload, warehouse, cache, hist, expiries, files, aside>>

\* engine.py 137-152: FETCHING, TRUNCATE staging_credit, VALIDATING, and the
\* start of fetch_iter (get_data_iter reads the chunk count once)
StartCredits(p) ==
    /\ inv[p].pc = "credits"
    /\ LET lt == inv[p].loan_type
           n  == upload[lt]["credit"].nchunks
       IN  \/ /\ UpdateStatus(p, "VALIDATING")
              /\ staging_credit' = {}
              /\ inv' = [inv EXCEPT ![p].num_chunks = n, ![p].chunk_i = 1,
                                    ![p].global_row_idx = 0,
                                    ![p].pc = IF n = 0 THEN "payments" ELSE "credit_chunk"]
              /\ Ok
           \/ \* TRUNCATE raises
              /\ UpdateStatus(p, "FETCHING")
              /\ UNCHANGED staging_credit /\ Raise(p)
           \/ \* the chunk count read raises
              /\ UpdateStatus(p, "VALIDATING")
              /\ staging_credit' = {} /\ Raise(p)
    /\ UNCHANGED <<lock, upload, staging_payment, fact_credit, fact_payment,
                   cache, hist, expiries, files, aside>>

\* rows of a chunk with their global_row_idx
Numbered(chunk, base) == {<<base + i, chunk[i]>> : i \in 1..Len(chunk)}

\* engine.py 152-193, one chunk of the credit file
CreditChunk(p) ==
    /\ inv[p].pc = "credit_chunk"
    /\ LET lt    == inv[p].loan_type
           chunk == get_chunk(upload[lt]["credit"], inv[p].chunk_i)
           valid == {nr \in Numbered(chunk, inv[p].global_row_idx) :
                        CreditRowIsValid(nr[2])}
           rows  == {FactRow(p, lt, nr[2].loan_account_number, nr[1], 0) : nr \in valid}
           last  == inv[p].chunk_i = inv[p].num_chunks
       IN  \/ /\ staging_credit' = staging_credit \cup rows
              /\ IF valid # {} THEN UpdateStatus(p, "STORING")
                               ELSE UNCHANGED <<sync_log, sync_logs>>
              /\ inv' = [inv EXCEPT
                    ![p].global_row_idx = @ + Len(chunk),
                    ![p].valid_loan_ids = @ \cup
                        {nr[2].loan_account_number : nr \in valid},
                    ![p].valid_credit_count = @ + Cardinality(rows),
                    ![p].credit_error_count = @ + Len(chunk) - Cardinality(valid),
                    ![p].chunk_i = @ + 1,
                    ![p].pc = IF last THEN "payments" ELSE "credit_chunk"]
              /\ hist' = [hist EXCEPT ![p].staged_credit = @ \cup rows]
              /\ Ok
           \/ \* the chunk read or the insert raises
              /\ UNCHANGED <<staging_credit, sync_log, sync_logs, hist>>
              /\ Raise(p)
    /\ UNCHANGED <<lock, upload, staging_payment, fact_credit, fact_payment,
                   cache, expiries, files, aside>>

\* cross_validators.py 81-87: what _get_existing_loans returns when the
\* warehouse query raises
QueryFailedLoans_Stale(fact, lt) == DistinctLoanIds(fact, lt)

QueryFailedLoans(fact, lt) == {}

\* engine.py 207: all_valid_loans = valid_loan_ids | existing_loan_ids
AllValidLoans_BatchOnly(valid_loan_ids, existing_loan_ids) == valid_loan_ids

AllValidLoans(valid_loan_ids, existing_loan_ids) ==
    valid_loan_ids \cup existing_loan_ids

\* engine.py 200-216: TRUNCATE staging_payment, the existing loan ids
\* (cross_validators.py 61-87, _get_existing_loans), and the start of
\* fetch_iter for the payment file
StartPayments(p) ==
    /\ inv[p].pc = "payments"
    /\ LET lt == inv[p].loan_type
           n  == upload[lt]["payment_plan"].nchunks
           Go(existing, failed) ==
              /\ staging_payment' = {}
              /\ inv' = [inv EXCEPT
                    ![p].all_valid_loans =
                        AllValidLoans(inv[p].valid_loan_ids, existing),
                    ![p].valid_loan_ids = {},
                    ![p].num_chunks = n, ![p].chunk_i = 1,
                    ![p].global_row_idx = 0,
                    ![p].pc = IF n = 0 THEN "gate" ELSE "payment_chunk"]
              /\ hist' = [hist EXCEPT ![p].existing = existing,
                                      ![p].query_failed = failed]
       IN  \/ \* cache hit
              /\ cache[lt].hit
              /\ Go(cache[lt].loans, FALSE)
              /\ UNCHANGED cache /\ Ok
           \/ \* cache miss, the warehouse answers, the set is cached
              /\ ~cache[lt].hit
              /\ Go(DistinctLoanIds(fact_credit, lt), FALSE)
              /\ cache' = [cache EXCEPT ![lt] =
                              [hit |-> TRUE, loans |-> DistinctLoanIds(fact_credit, lt)]]
              /\ Ok
           \/ \* cache miss, the warehouse query raises: batch credits only
              /\ ~cache[lt].hit
              /\ Go(QueryFailedLoans(fact_credit, lt), TRUE)
              /\ UNCHANGED cache /\ Fail
           \/ \* TRUNCATE raises
              /\ UNCHANGED <<staging_payment, cache, hist>>
              /\ Raise(p)
    /\ UNCHANGED <<sync_log, sync_logs, lock, upload, staging_credit,
                   fact_credit, fact_payment, expiries, files, aside>>

\* engine.py 233-235, the cross-validation of a field-valid payment row
CrossCheck_Skipped(loan_id, all_valid_loans) == TRUE

CrossCheck(loan_id, all_valid_loans) == loan_id \in all_valid_loans

\* engine.py 216-270, one chunk of the payment file
PaymentChunk(p) ==
    /\ inv[p].pc = "payment_chunk"
    /\ LET lt    == inv[p].loan_type
           chunk == get_chunk(upload[lt]["payment_plan"], inv[p].chunk_i)
           valid == {nr \in Numbered(chunk, inv[p].global_row_idx) :
                        /\ PaymentRowIsValid(nr[2])
                        /\ CrossCheck(nr[2].loan_account_number,
                                      inv[p].all_valid_loans)}
           rows  == {FactRow(p, lt, nr[2].loan_account_number, nr[1],
                             nr[2].installment_number) : nr \in valid}
           \* the loans of the rows that get a CROSS_REFERENCE error
           cross == {nr[2].loan_account_number :
                        nr \in {x \in Numbered(chunk, inv[p].global_row_idx) :
                                   /\ PaymentRowIsValid(x[2])
                                   /\ ~CrossCheck(x[2].loan_account_number,
                                                  inv[p].all_valid_loans)}}
           \* the rows that passed validate_row, and those of them that get
           \* a CROSS_REFERENCE error (row number and raw_value)
           passed  == {<<nr[1], nr[2].loan_account_number>> :
                         nr \in {x \in Numbered(chunk, inv[p].global_row_idx) :
                                    PaymentRowIsValid(x[2])}}
           crossed == {e \in passed : ~CrossCheck(e[2], inv[p].all_valid_loans)}
           last  == inv[p].chunk_i = inv[p].num_chunks
       IN  \/ /\ staging_payment' = staging_payment \cup rows
              /\ inv' = [inv EXCEPT
                    ![p].global_row_idx = @ + Len(chunk),
                    ![p].valid_payment_count = @ + Cardinality(rows),
                    ![p].payment_error_count = @ + Len(chunk) - Cardinality(valid),
                    ![p].chunk_i = @ + 1,
                    ![p].pc = IF last THEN "gate" ELSE "payment_chunk"]
              /\ hist' = [hist EXCEPT ![p].staged_payment = @ \cup rows,
                                      ![p].cross_errors = @ \cup cross,
                                      ![p].field_valid = @ \cup passed,
                                      ![p].cross_rows = @ \cup crossed]
              /\ Ok
           \/ \* the chunk read or the insert raises
              /\ UNCHANGED <<staging_payment, hist>>
              /\ Raise(p)
    /\ UNCHANGED <<sync_log, sync_logs, lock, upload, staging_credit,
                   fact_credit, fact_payment, cache, expiries, files, aside>>

\* ------------------------------------------------------------ gate, abort
Exceeds(p) ==
    ErrorRateExceeds(inv[p].total_credits + inv[p].total_payments,
                     inv[p].valid_credit_count + inv[p].valid_payment_count)

\* engine.py 281-284: the gate is passed towards the abort path and both
\* staging tables are truncated
AbortTruncate(p) ==
    /\ inv[p].pc = "gate"
    /\ Exceeds(p)
    /\ \/ /\ staging_credit' = {} /\ staging_payment' = {}
          /\ Goto(p, "abort_log") /\ Ok
       \/ \* the first TRUNCATE raises
          /\ UNCHANGED <<staging_credit, staging_payment>> /\ Raise(p)
       \/ \* the second TRUNCATE raises
          /\ staging_credit' = {} /\ UNCHANGED staging_payment /\ Raise(p)
    /\ UNCHANGED <<sync_log, sync_logs, lock, upload, fact_credit,
                   fact_payment, cache, hist, expiries, files, aside>>

\* engine.py 286-296
AbortLog(p) ==
    /\ inv[p].pc = "abort_log"
    /\ LET obj == [sync_log[p] EXCEPT
                      !.status = "FAILED",
                      !.reason = "Error rate exceeds 50%",
                      !.valid_credit_rows = inv[p].valid_credit_count,
                      !.valid_payment_rows = inv[p].valid_payment_count,
                      !.error_count = inv[p].credit_error_count
                                         + inv[p].payment_error_count]
       IN  /\ sync_log' = [sync_log EXCEPT ![p] = obj]
           /\ \/ Save(p, obj) /\ Goto(p, "abort_finish") /\ Ok
              \/ UNCHANGED sync_logs /\ Raise(p)
    /\ UNCHANGED <<lock, upload, warehouse, cache, hist, expiries, files, aside>>

\* engine.py 441-446, _cleanup_redis: clear_data for both file types
cleanup_redis(lt) ==
    upload' = [upload EXCEPT ![lt] = [ft \in FileTypes |-> clear_data]]

\* cache.py 127-146, invalidate_after_sync
invalidate_after_sync(lt) == cache' = [cache EXCEPT ![lt] = NoCache]

\* engine.py 298-313 and 349-376: error rows, failed rows, sync config,
\* upload cleanup, cache invalidation, then the return statement
Finish(p) ==
    /\ inv[p].pc \in {"abort_finish", "complete_finish"}
    /\ \/ /\ cleanup_redis(inv[p].loan_type)
          /\ invalidate_after_sync(inv[p].loan_type)
          /\ Goto(p, "release") /\ Ok
       \/ \* cache_delete_many swallows a cache failure: the entry stays
          /\ cleanup_redis(inv[p].loan_type)
          /\ UNCHANGED cache
          /\ Goto(p, "release") /\ Fail
       \/ \* _save_errors_batched, _store_failed_rows or _update_sync_config raises
          /\ UNCHANGED <<upload, cache>> /\ Raise(p)
       \/ \* _cleanup_redis raises after the credit upload was cleared
          /\ upload' = [upload EXCEPT ![inv[p].loan_type]["credit"] = clear_data]
          /\ UNCHANGED cache /\ Raise(p)
    /\ UNCHANGED <<sync_log, sync_logs, lock, warehouse, hist, expiries, files, aside>>

\* ------------------------------------------------------------ commit
\* engine.py 318 and 325: a partition replace is issued only for a positive
\* valid count
IssueReplace_Always(valid_count) == TRUE

IssueReplace(valid_count) == valid_count > 0

\* engine.py 315-323: the gate is passed towards the commit, STORING,
\* the credit partition replace and the truncate of staging_credit
CommitCredit(p) ==
    /\ inv[p].pc = "gate"
    /\ ~Exceeds(p)
    /\ LET lt == inv[p].loan_type
           issue == IssueReplace(inv[p].valid_credit_count)
           Replace ==
              /\ fact_credit' = IF issue
                     THEN ReplacePartition(fact_credit, staging_credit, lt)
                     ELSE fact_credit
              /\ hist' = [hist EXCEPT ![p].replaced =
                             IF issue THEN @ \cup {"credit"} ELSE @]
       IN  \/ /\ Replace /\ staging_credit' = {}
              /\ Goto(p, "commit_payment") /\ Ok
           \/ \* the REPLACE PARTITION raises
              /\ UNCHANGED <<fact_credit, staging_credit, hist>> /\ Raise(p)
           \/ \* the TRUNCATE after the replace raises
              /\ Replace /\ UNCHANGED staging_credit /\ Raise(p)
    /\ UpdateStatus(p, "STORING")
    /\ UNCHANGED <<lock, upload, staging_payment, fact_payment, cache, expiries, files, aside>>

\* engine.py 325-330: the payment partition replace and the truncate
CommitPayment(p) ==
    /\ inv[p].pc = "commit_payment"
    /\ LET lt == inv[p].loan_type
           issue == IssueReplace(inv[p].valid_payment_count)
           Replace ==
              /\ fact_payment' = IF issue
                     THEN ReplacePartition(fact_payment, staging_payment, lt)
                     ELSE fact_payment
              /\ hist' = [hist EXCEPT ![p].replaced =
                             IF issue THEN @ \cup {"payment_plan"} ELSE @]
       IN  \/ /\ Replace /\ staging_payment' = {}
              /\ Goto(p, "complete_log") /\ Ok
           \/ \* the REPLACE PARTITION raises
              /\ UNCHANGED <<fact_payment, staging_payment, hist>> /\ Raise(p)
           \/ \* the TRUNCATE after the replace raises
              /\ Replace /\ UNCHANGED staging_payment /\ Raise(p)
    /\ UNCHANGED <<sync_log, sync_logs, lock, upload, staging_credit,
                   fact_credit, cache, expiries, files, aside>>

\* engine.py 340-347
CompleteLog(p) ==
    /\ inv[p].pc = "complete_log"
    /\ LET obj == [sync_log[p] EXCEPT
                      !.status = "COMPLETED",
                      !.valid_credit_rows = inv[p].valid_credit_count,
                      !.valid_payment_rows = inv[p].valid_payment_count,
                      !.error_count = inv[p].credit_error_count
                                         + inv[p].payment_error_count]
       IN  /\ sync_log' = [sync_log EXCEPT ![p] = obj]
           /\ \/ Save(p, obj) /\ Goto(p, "complete_finish") /\ Ok
              \/ UNCHANGED sync_logs /\ Raise(p)
    /\ UNCHANGED <<lock, upload, warehouse, cache, hist, expiries, files, aside>>

\* ------------------------------------------------------------ except, finally
\* engine.py 378-400: best-effort truncates, the FAILED row, sync config,
\* cache invalidation, return.  ft, fs, fc: whether the truncates, the
\* save (or _update_sync_config) and the cache invalidation fail.
Except(p) ==
    /\ inv[p].pc = "except"
    /\ \E ft \in {0, 1}, fs \in {0, 1}, fc \in {0, 1} :
        LET obj == [sync_log[p] EXCEPT !.status = "FAILED", !.reason = "exception"]
        IN  /\ fs = 1 => fc = 0
            /\ faults + ft + fs + fc <= MaxFaults
            /\ faults' = faults + ft + fs + fc
            /\ IF ft = 0 THEN staging_credit' = {} /\ staging_payment' = {}
                         ELSE UNCHANGED <<staging_credit, staging_payment>>
            /\ sync_log' = [sync_log EXCEPT ![p] = obj]
            /\ IF fs = 0 THEN Save(p, obj) ELSE UNCHANGED sync_logs
            /\ IF fs = 0 /\ fc = 0 THEN invalidate_after_sync(inv[p].loan_type)
                                   ELSE UNCHANGED cache
            /\ inv' = [inv EXCEPT ![p] =
                          [Left(p, "release") EXCEPT !.raised = (fs = 1)]]
    /\ UNCHANGED <<lock, upload, fact_credit, fact_payment, hist, expiries, files, aside>>

\* engine.py 401-406: r.delete(lock_key), whoever holds the key; a failure
\* of the delete is swallowed
Release(p) ==
    /\ inv[p].pc = "release"
    /\ \/ lock' = [lock EXCEPT ![inv[p].loan_type] = NoHolder] /\ Ok
       \/ UNCHANGED lock /\ Fail
    /\ inv' = [inv EXCEPT ![p] = Left(p, IF inv[p].raised THEN "escaped" ELSE "done")]
    /\ UNCHANGED <<sync_log, sync_logs, upload, warehouse, cache, hist, expiries, files, aside>>

\* storage.py 73-99, store_data: the bank uploads its credit and payment
\* files for a loan type again (upload view of the external bank), at any
\* time, also while a sync is reading them
Upload(lt) ==
    /\ upload[lt] # [ft \in FileTypes |-> store_data(files[ft])]
    /\ upload' = [upload EXCEPT ![lt] = [ft \in FileTypes |-> store_data(files[ft])]]
    /\ UNCHANGED <<inv, sync_log, sync_logs, lock, warehouse, cache, files,
                   hist, faults, expiries, aside>>

Next ==
    \/ \E lt \in LoanTypes : Upload(lt)
    \/ \E p \in Procs, lt \in LoanTypes, w \in BOOLEAN : Call(p, lt, w)
    \/ \E p \in Procs : Poll(p)
    \/ \E p \in Procs : Reject(p)
    \/ \E p \in Procs : Return(p)
    \/ \E p \in Procs : OpenLog(p)
    \/ \E lt \in LoanTypes : LockExpire(lt)
    \/ \E p \in Procs : Kill(p)
    \/ \E p \in Procs : ReadCounts(p)
    \/ \E p \in Procs : StartCredits(p)
    \/ \E p \in Procs : CreditChunk(p)
    \/ \E p \in Procs : StartPayments(p)
    \/ \E p \in Procs : PaymentChunk(p)
    \/ \E p \in Procs : AbortTruncate(p)
    \/ \E p \in Procs : AbortLog(p)
    \/ \E p \in Procs : Finish(p)
    \/ \E p \in Procs : CommitCredit(p)
    \/ \E p \in Procs : CommitPayment(p)
    \/ \E p \in Procs : CompleteLog(p)
    \/ \E p \in Procs : Except(p)
    \/ \E p \in Procs : Release(p)

Spec == Init /\ [][Next]_vars

\* the steps of invocation p once it was called: a worker that is not
\* killed keeps executing, and time passes for the TTL of a set key
Step(p) ==
    \/ Poll(p) \/ Reject(p) \/ Return(p) \/ OpenLog(p) \/ ReadCounts(p)
    \/ StartCredits(p) \/ CreditChunk(p) \/ StartPayments(p)
    \/ PaymentChunk(p) \/ AbortTruncate(p) \/ AbortLog(p) \/ Finish(p)
    \/ CommitCredit(p) \/ CommitPayment(p) \/ CompleteLog(p) \/ Except(p)
    \/ Release(p)

\* The behaviours in which a kill of the worker is the only failure: no
\* collaborator call raises.
NoFault(A) == A /\ UNCHANGED faults

\* (the except clause runs only after a failure and has no step here)
CrashNext ==
    \/ \E lt \in LoanTypes : Upload(lt)
    \/ \E p \in Procs, lt \in LoanTypes, w \in BOOLEAN : NoFault(Call(p, lt, w))
    \/ \E p \in Procs : NoFault(Poll(p))
    \/ \E p \in Procs : NoFault(Reject(p))
    \/ \E p \in Procs : Return(p)
    \/ \E p \in Procs : NoFault(OpenLog(p))
    \/ \E lt \in LoanTypes : LockExpire(lt)
    \/ \E p \in Procs : Kill(p)
    \/ \E p \in Procs : NoFault(ReadCounts(p))
    \/ \E p \in Procs : NoFault(StartCredits(p))
    \/ \E p \in Procs : NoFault(CreditChunk(p))
    \/ \E p \in Procs : NoFault(StartPayments(p))
    \/ \E p \in Procs : NoFault(PaymentChunk(p))
    \/ \E p \in Procs : NoFault(AbortTruncate(p))
    \/ \E p \in Procs : NoFault(AbortLog(p))
    \/ \E p \in Procs : NoFault(Finish(p))
    \/ \E p \in Procs : NoFault(CommitCredit(p))
    \/ \E p \in Procs : NoFault(CommitPayment(p))
    \/ \E p \in Procs : NoFault(CompleteLog(p))
    \/ \E p \in Procs : NoFault(Release(p))

CrashSpec ==
    /\ Init /\ [][CrashNext]_vars
    /\ \A p \in Procs : WF_vars(Step(p) /\ UNCHANGED faults)
    /\ \A lt \in LoanTypes : WF_vars(LockExpire(lt))

TypeOK ==
    /\ \A p \in Procs : inv[p].pc \in
          {"idle", "waiting", "reject", "rejected", "open_log", "counts", "credits",
           "credit_chunk", "payments", "payment_chunk", "gate", "abort_log",
           "abort_finish", "commit_payment", "complete_log", "complete_finish",
           "except", "release", "done", "escaped", "killed"}
    /\ \A lt \in LoanTypes : lock[lt] \in Procs \cup {NoHolder}

\* ============================================================ properties
\* a return statement of sync is being executed: the one of line 114, or
\* one of the try block or the except clause (the finally clause is what
\* remains)
AtReturn(p) == inv[p].pc \in {"release", "rejected"} /\ ~inv[p].raised

\* control has left sync by a return
Returned(p) == inv[p].pc = "done"

\* control has left sync, by a return or by an exception
Ended(p) == inv[p].pc \in {"done", "escaped"}

\* between the first staging truncate and the last partition replace
InPipeline(p) ==
    inv[p].pc \in {"credit_chunk", "payments", "payment_chunk", "gate",
                   "commit_payment"}

CreditPartition(p) == Partition(fact_credit, inv[p].loan_type)
PaymentPartition(p) == Partition(fact_payment, inv[p].loan_type)

\* C1: at most one invocation per loan type is executing its pipeline
\* phases at any time.
C1_OnePipelinePerLoanType ==
    \A p, q \in Procs :
        (p # q /\ inv[p].loan_type = inv[q].loan_type)
            => ~(InPipeline(p) /\ InPipeline(q))

\* C2: when sync returns a FAILED SyncLog, the fact partitions of its loan
\* type are what they were when it was called (no other invocation having
\* replaced a partition in between).
C2_FailedLeavesFacts ==
    \A p \in Procs :
        ( /\ AtReturn(p) \/ Returned(p)
          /\ sync_log[p].status = "FAILED"
          /\ \A q \in Procs \ {p} : hist[q].replaced = {} )
            => /\ CreditPartition(p) = hist[p].fact_credit
               /\ PaymentPartition(p) = hist[p].fact_payment

\* C3: when sync returns COMPLETED with valid_credit_rows > 0 (valid_payment_rows
\* > 0) the credit (payment) partition holds exactly the rows of this
\* invocation that passed validation, one per valid row, none of another batch.
C3_CompletedHoldsOwnRows ==
    \A p \in Procs :
        (AtReturn(p) /\ sync_log[p].status = "COMPLETED")
            => /\ sync_log[p].valid_credit_rows > 0
                    => /\ CreditPartition(p) = hist[p].staged_credit
                       /\ Cardinality(CreditPartition(p)) = sync_log[p].valid_credit_rows
                       /\ \A r \in CreditPartition(p) : r.batch_id = p
               /\ sync_log[p].valid_payment_rows > 0
                    => /\ PaymentPartition(p) = hist[p].staged_payment
                       /\ Cardinality(PaymentPartition(p)) = sync_log[p].valid_payment_rows
                       /\ \A r \in PaymentPartition(p) : r.batch_id = p

\* C4 (as stated): after a COMPLETED sync every row of the payment partition
\* has its loan_account_number in the credit partition as it stands after
\* the commit.
C4_PaymentsInCommittedCredits ==
    \A p \in Procs :
        (AtReturn(p) /\ sync_log[p].status = "COMPLETED")
            => \A r \in PaymentPartition(p) :
                  r.loan_account_number \in DistinctLoanIds(fact_credit, inv[p].loan_type)

\* the loan ids of the credit rows of invocation p that passed validation
BatchLoans(p) == {r.loan_account_number : r \in hist[p].staged_credit}

\* C4 (amended): after a COMPLETED sync every row this sync wrote into the
\* payment partition has its loan_account_number among the credit rows that
\* passed validation in the same run or in the existing-loan set the run
\* read for the cross-check.
C4_PaymentsInBatchOrExisting ==
    \A p \in Procs :
        (AtReturn(p) /\ sync_log[p].status = "COMPLETED")
            => \A r \in PaymentPartition(p) :
                  r.batch_id = p =>
                      r.loan_account_number \in BatchLoans(p) \cup hist[p].existing

\* C4 witness: a COMPLETED sync has committed a payment row whose loan is in
\* the existing-loan set it read but not in the credit partition any more.
C4_Witness ==
    \E p \in Procs :
        /\ AtReturn(p) /\ sync_log[p].status = "COMPLETED"
        /\ \E r \in PaymentPartition(p) :
              /\ r.batch_id = p
              /\ r.loan_account_number \in hist[p].existing
              /\ r.loan_account_number \notin
                    DistinctLoanIds(fact_credit, inv[p].loan_type)

\* C5: a RETAIL and a COMMERCIAL sync interleave, nothing fails and no lock
\* expires: each one that returns COMPLETED leaves its partitions with
\* exactly the rows it validated.
C5_CrossLoanTypeIsolation ==
    \A p, q \in Procs :
        ( /\ p # q
          /\ inv[q].pc # "idle"
          /\ inv[p].loan_type # inv[q].loan_type
          /\ faults = 0 /\ expiries = 0
          /\ AtReturn(p) /\ sync_log[p].status = "COMPLETED" )
            => /\ sync_log[p].valid_credit_rows > 0
                    => CreditPartition(p) = hist[p].staged_credit
               /\ sync_log[p].valid_payment_rows > 0
                    => PaymentPartition(p) = hist[p].staged_payment

\* C6: no exception escapes sync.
C6_NoExceptionEscapes ==
    \A p \in Procs : inv[p].pc # "escaped" /\ ~inv[p].raised

\* C7: an invocation that set the lock key has deleted it when control
\* leaves sync.
C7_LockDeletedOnExit ==
    \A p \in Procs :
        (Ended(p) /\ inv[p].acquired) => lock[inv[p].loan_type] # p

\* C8: every call creates one SyncLog row, and when the call returns the
\* persisted status of the row is COMPLETED or FAILED.
C8_OneTerminalSyncLog ==
    \A p \in Procs :
        /\ Ended(p) => sync_logs[p] # NoRow
        /\ Returned(p) => sync_logs[p].status \in {"COMPLETED", "FAILED"}

\* C9: of two non-waiting calls for one loan type, the second made while the
\* first was inside sync, exactly one executes the pipeline, the other
\* returns FAILED 'Concurrent sync in progress', and not both return COMPLETED.
C9_OverlappingCallsExclude ==
    \A p, q \in Procs :
        ( /\ p \in hist[q].concurrent
          /\ ~inv[p].wait_for_lock /\ ~inv[q].wait_for_lock
          /\ Returned(p) /\ Returned(q) )
            => /\ inv[p].acquired # inv[q].acquired
               /\ \E r \in {p, q} :
                     /\ ~inv[r].acquired
                     /\ sync_log[r].status = "FAILED"
                     /\ sync_log[r].reason = "Concurrent sync in progress"
               /\ ~(sync_log[p].status = "COMPLETED" /\ sync_log[q].status = "COMPLETED")

\* the gate condition as the claim states it, on the totals read at the start
GateCondition(p) ==
    LET total == inv[p].total_credits + inv[p].total_payments
    IN  /\ total > 0
        /\ 2 * (total - inv[p].valid_credit_count - inv[p].valid_payment_count) > total

\* C10: the sync is on the abort path exactly if total > 0 and
\* 2 * (total - valid_credit - valid_payment) > total.
C10_AbortIffOverHalfInvalid ==
    \A p \in Procs :
        /\ inv[p].pc \in {"abort_log", "abort_finish"} => GateCondition(p)
        /\ inv[p].pc \in {"commit_payment", "complete_log", "complete_finish"}
              => ~GateCondition(p)

\* C10 witness: a sync with exactly half of its rows invalid is committing.
C10_Witness ==
    \E p \in Procs :
        LET total == inv[p].total_credits + inv[p].total_payments
        IN  /\ inv[p].pc = "commit_payment"
            /\ total > 0
            /\ 2 * (total - inv[p].valid_credit_count - inv[p].valid_payment_count) = total

\* the step by which invocation p reaches a return statement
Returns(p) == ~AtReturn(p) /\ AtReturn(p)'

\* C11: whenever a sync invocation returns, whatever its status, the
\* staging_credit and staging_payment tables are empty.
C11_StagingEmptyAtReturn ==
    [][\A p \in Procs :
          Returns(p) => staging_credit' = {} /\ staging_payment' = {}]_vars

\* the worker of invocation p was killed inside sync
Killed(p) == inv[p].pc = "killed"

\* sync has returned and the persisted status is COMPLETED or FAILED
Terminal(p) == Returned(p) /\ sync_logs[p].status \in {"COMPLETED", "FAILED"}

C13_CrashLeavesFailedLogOnly ==
    \A p \in Procs :
        Killed(p) => /\ sync_logs[p].status = "FAILED"
                     /\ \A r \in staging_credit \cup staging_payment : r.batch_id # p

\* C14: once the persisted status of a SyncLog is COMPLETED or FAILED, no
\* later step changes it.
C14_TerminalStatusFrozen ==
    [][\A p \in Procs :
          sync_logs[p].status \in {"COMPLETED", "FAILED"}
              => sync_logs'[p].status = sync_logs[p].status]_vars

\* C15: in every terminal SyncLog, valid_credit_rows + valid_payment_rows +
\* error_count <= total_credit_rows + total_payment_rows.
C15_CountsWithinTotals ==
    \A p \in Procs :
        sync_logs[p].status \in {"COMPLETED", "FAILED"}
            => sync_logs[p].valid_credit_rows + sync_logs[p].valid_payment_rows
                  + sync_logs[p].error_count
               <= sync_logs[p].total_credit_rows + sync_logs[p].total_payment_rows

\* the rows of a partition without their batch_id
Strip(rows) ==
    {[loan_type |-> r.loan_type, loan_account_number |-> r.loan_account_number,
      row |-> r.row, installment_number |-> r.installment_number] : r \in rows}

\* invocation p has read and streamed the whole of the bank's files
ReadWholeFiles(p) ==
    /\ sync_log[p].total_credit_rows = Len(files["credit"])
    /\ sync_log[p].total_payment_rows = Len(files["payment_plan"])
    /\ sync_log[p].valid_credit_rows + sync_log[p].valid_payment_rows
          + sync_log[p].error_count
       = Len(files["credit"]) + Len(files["payment_plan"])

\* C16: a sync returned COMPLETED, the same files were uploaded again and
\* synced again with nothing failing: the second sync returns COMPLETED and
\* the fact partitions, batch_id left aside, are what they were after the
\* first sync.
C16_ResyncIsIdempotent ==
    \A p, q \in Procs :
        ( /\ p < q /\ inv[p].loan_type = inv[q].loan_type
          /\ Returned(p) /\ p \notin hist[q].concurrent
          /\ sync_log[p].status = "COMPLETED" /\ ReadWholeFiles(p)
          /\ AtReturn(q) /\ inv[q].acquired /\ ReadWholeFiles(q)
          /\ faults = 0 /\ expiries = 0 )
            => /\ sync_log[q].status = "COMPLETED"
               /\ Strip(CreditPartition(q)) = Strip(hist[q].fact_credit)
               /\ Strip(PaymentPartition(q)) = Strip(hist[q].fact_payment)

\* C17: a partition replace on fact_credit (fact_payment) is issued only by
\* an invocation that has inserted valid credit (payment) rows; a sync that
\* reads empty inputs is not aborted, and when it returns COMPLETED it has
\* issued no replace and, no other invocation having replaced a partition,
\* the fact partitions are what they were when it was called.
C17_ReplaceOnlyWithValidRows ==
    \A p \in Procs :
        /\ "credit" \in hist[p].replaced => hist[p].staged_credit # {}
        /\ "payment_plan" \in hist[p].replaced => hist[p].staged_payment # {}
        /\ ( /\ AtReturn(p) /\ inv[p].acquired
              /\ sync_log[p].total_credit_rows = 0
              /\ sync_log[p].total_payment_rows = 0
              /\ hist[p].staged_credit = {} /\ hist[p].staged_payment = {} )
                => /\ sync_log[p].reason # "Error rate exceeds 50%"
                   /\ sync_log[p].status = "COMPLETED"
                        => /\ hist[p].replaced = {}
                           /\ (\A q \in Procs \ {p} : hist[q].replaced = {})
                                 => /\ CreditPartition(p) = hist[p].fact_credit
                                    /\ PaymentPartition(p) = hist[p].fact_payment

\* C17 witness: a sync of two empty inputs has returned COMPLETED over a
\* partition that holds rows.
C17_Witness ==
    \E p \in Procs :
        /\ AtReturn(p) /\ sync_log[p].status = "COMPLETED"
        /\ sync_log[p].total_credit_rows = 0 /\ sync_log[p].total_payment_rows = 0
        /\ hist[p].staged_credit = {} /\ hist[p].staged_payment = {}
        /\ CreditPartition(p) # {} /\ PaymentPartition(p) # {}

\* the upload counters of both file types of p's loan type are 0
UploadCleared(p) ==
    \A ft \in FileTypes : upload[inv[p].loan_type][ft].count = 0

\* C18: at the end of every sync invocation, whatever its outcome, the
\* uploaded credit and payment_plan data of its loan type has been cleared.
C18_UploadClearedAtReturn ==
    [][\A p \in Procs : Returns(p) => UploadCleared(p)']_vars

\* C19: after every terminal transition of a sync, whatever its status, the
\* existing-loans cache entry of its loan type is absent.
C19_CacheAbsentAtReturn ==
    [][\A p \in Procs : Returns(p) => ~cache'[inv'[p].loan_type].hit]_vars

\* the loan ids of the credit partition as it was when p was called
LoansAtCall(p) == {r.loan_account_number : r \in hist[p].fact_credit}

\* C20: when the warehouse query for the existing loan ids fails, the
\* cross-check set is exactly this invocation's valid credit loan ids: no
\* payment of a loan outside them is staged, every field-valid payment of
\* the file whose loan is outside them has a CROSS_REFERENCE error once the
\* file is streamed, and, that failure being the only one, the sync does not
\* take the exception path.
C20_QueryFailureUsesBatchOnly ==
    \A p \in Procs :
        hist[p].query_failed =>
            /\ hist[p].existing = {}
            /\ inv[p].pc = "payment_chunk" => inv[p].all_valid_loans = BatchLoans(p)
            /\ \A r \in hist[p].staged_payment : r.loan_account_number \in BatchLoans(p)
            /\ ( /\ inv[p].pc = "gate"
                  /\ inv[p].valid_payment_count + inv[p].payment_error_count
                        = Len(files["payment_plan"]) )
                    => \A i \in 1..Len(files["payment_plan"]) :
                          LET row == files["payment_plan"][i]
                          IN  ( /\ PaymentRowIsValid(row)
                                /\ row.loan_account_number \notin BatchLoans(p) )
                                  => row.loan_account_number \in hist[p].cross_errors
            /\ faults = 1 => inv[p].pc # "except" /\ ~inv[p].raised

\* C20 witness: the query failed, a payment of a loan that is only in the
\* existing partition got a CROSS_REFERENCE error, and the sync has returned
\* COMPLETED.
C20_Witness ==
    \E p \in Procs :
        /\ hist[p].query_failed
        /\ AtReturn(p) /\ sync_log[p].status = "COMPLETED"
        /\ hist[p].cross_errors \cap (LoansAtCall(p) \ BatchLoans(p)) # {}

\* C21: a payment row that passed field validation is staged if and only
\* if its loan_account_number is among the loan ids of the credit rows that
\* passed validation in this run or among the existing loan ids the run
\* read; otherwise it gets one CROSS_REFERENCE error on loan_account_number
\* and is not staged, and it counts once among the payment errors.
C21_CrossCheckAcceptsIffKnownLoan ==
    \A p \in Procs :
        /\ \A e \in hist[p].field_valid :
              LET staged == \E r \in hist[p].staged_payment :
                               r.row = e[1] /\ r.loan_account_number = e[2]
                  known  == e[2] \in BatchLoans(p) \cup hist[p].existing
              IN  /\ staged <=> known
                  /\ (e \in hist[p].cross_rows) <=> ~known
        /\ hist[p].cross_rows \subseteq hist[p].field_valid
        /\ \A r \in hist[p].staged_payment :
              <<r.row, r.loan_account_number>> \in hist[p].field_valid
        /\ inv[p].pc \in {"payment_chunk", "gate"} =>
              /\ inv[p].valid_payment_count = Cardinality(hist[p].staged_payment)
              /\ inv[p].payment_error_count =
                    inv[p].global_row_idx - Cardinality(hist[p].field_valid)
                        + Cardinality(hist[p].cross_rows)

\* C21 witness: a whole payment file was streamed; one field-valid row was
\* staged for a loan of this run's credits, and another one, for a loan
\* outside the cross-check set, got a CROSS_REFERENCE error.
C21_Witness ==
    \E p \in Procs :
        /\ inv[p].pc = "gate"
        /\ \E r \in hist[p].staged_payment : r.loan_account_number \in BatchLoans(p)
        /\ \E e \in hist[p].cross_rows :
              e[2] \notin BatchLoans(p) \cup hist[p].existing

\* ============================================================ strings
\* A field of an uploaded row is a Python str, modelled as the sequence of
\* its characters.

DigitChars == <<"0", "1", "2", "3", "4", "5", "6", "7", "8", "9">>

\* str.isdigit() on one character (ASCII digits)
IsDigitChar(c) == \E i \in 1..Len(DigitChars) : DigitChars[i] = c

DigitVal(c) == (CHOOSE i \in 1..Len(DigitChars) : DigitChars[i] = c) - 1

\* str.isdigit(): false on the empty string
isdigit(s) == s # <<>> /\ \A i \in 1..Len(s) : IsDigitChar(s[i])

RECURSIVE lstrip(_)
lstrip(s) == IF s # <<>> /\ s[1] = " " THEN lstrip(Tail(s)) ELSE s

RECURSIVE rstrip(_)
rstrip(s) ==
    IF s # <<>> /\ s[Len(s)] = " " THEN rstrip(SubSeq(s, 1, Len(s) - 1)) ELSE s

\* str.strip()
strip(s) == rstrip(lstrip(s))

\* value.replace('-', '')
replace(s, c) == SelectSeq(s, LAMBDA x : x # c)

\* the number a string of digits spells
RECURSIVE ToNat(_)
ToNat(s) ==
    IF s = <<>> THEN 0
    ELSE ToNat(SubSeq(s, 1, Len(s) - 1)) * 10 + DigitVal(s[Len(s)])

RECURSIVE Pow10(_)
Pow10(n) == IF n = 0 THEN 1 ELSE 10 * Pow10(n - 1)

\* a ValueError of int(), float(), date()
ValueError == [ok |-> FALSE]

\* the string without its sign
Unsigned(s) == IF s # <<>> /\ s[1] \in {"-", "+"} THEN Tail(s) ELSE s

Negative(s) == s # <<>> /\ s[1] = "-"

\* int(value) for a stripped string: an optional sign and decimal digits
int(s) ==
    IF isdigit(Unsigned(s))
       THEN [ok |-> TRUE,
             val |-> IF Negative(s) THEN 0 - ToNat(Unsigned(s)) ELSE ToNat(Unsigned(s))]
       ELSE ValueError

\* float(value) for a stripped string in positional notation: an optional
\* sign and decimal digits around at most one point; the number is
\* num / den
float(s) ==
    LET u      == Unsigned(s)
        digits == replace(u, ".")
        points == Len(u) - Len(digits)
        frac   == IF points = 0 THEN 0
                  ELSE Len(u) - (CHOOSE i \in 1..Len(u) : u[i] = ".")
    IN  IF isdigit(digits) /\ points <= 1
           THEN [ok |-> TRUE,
                 num |-> IF Negative(s) THEN 0 - ToNat(digits) ELSE ToNat(digits),
                 den |-> Pow10(frac)]
           ELSE ValueError

\* row.get(field_name, '')
get(row, field_name) ==
    IF field_name \in DOMAIN row THEN row[field_name] ELSE <<>>

\* ============================================================ validators
\* base.py 6-21, ValidationResult and add_error (the descriptor keeps the
\* field name and the error kind)
ValidationResult == [is_valid |-> TRUE, errors |-> <<>>]

add_error_KeepsValid(result, field_name, error_type) ==
    [result EXCEPT !.errors = Append(@, [field_name |-> field_name,
                                         error_type |-> error_type])]

add_error(result, field_name, error_type) ==
    [is_valid |-> FALSE,
     errors |-> Append(result.errors, [field_name |-> field_name,
                                       error_type |-> error_type])]

\* min_val is the set of the lower bounds given: empty for min_val=None
None == {}

\* base.py 58-68
validate_required(result, row, field_name) ==
    IF strip(get(row, field_name)) = <<>>
       THEN add_error(result, field_name, "REQUIRED")
       ELSE result

\* base.py 70-98 (no caller passes max_val)
validate_integer(result, row, field_name, min_val) ==
    LET value == strip(get(row, field_name))
    IN  IF value = <<>> THEN result
        ELSE IF ~int(value).ok THEN add_error(result, field_name, "TYPE")
        ELSE IF \E m \in min_val : int(value).val < m
                THEN add_error(result, field_name, "RANGE")
        ELSE result

\* base.py 100-121: float_val < min_val
validate_decimal(result, row, field_name, min_val) ==
    LET value == strip(get(row, field_name))
    IN  IF value = <<>> THEN result
        ELSE IF ~float(value).ok THEN add_error(result, field_name, "TYPE")
        ELSE IF \E m \in min_val : float(value).num < m * float(value).den
                THEN add_error(result, field_name, "RANGE")
        ELSE result

MIN_YEAR == 1900
MAX_YEAR == 2100
MAX_MONTH == 12
MAX_DAY == 31

\* base.py 123-144
validate_date(result, row, field_name) ==
    LET value == strip(get(row, field_name))
        clean == replace(value, "-")
    IN  IF value = <<>> THEN result
        ELSE IF Len(clean) # 8 \/ ~isdigit(clean)
                THEN add_error(result, field_name, "FORMAT")
        ELSE LET year  == ToNat(SubSeq(clean, 1, 4))
                 month == ToNat(SubSeq(clean, 5, 6))
                 day   == ToNat(SubSeq(clean, 7, 8))
             IN  IF ~( /\ MIN_YEAR <= year /\ year <= MAX_YEAR
                       /\ 1 <= month /\ month <= MAX_MONTH
                       /\ 1 <= day /\ day <= MAX_DAY )
                    THEN add_error(result, field_name, "FORMAT")
                    ELSE result

\* base.py 146-158
validate_in_set(result, row, field_name, valid_values) ==
    LET value == strip(get(row, field_name))
    IN  IF value = <<>> THEN result
        ELSE IF value \notin valid_values
                THEN add_error(result, field_name, "VALUE")
        ELSE result

\* one validator applied to a list of fields, in the order of the calls
RECURSIVE required_each(_, _, _)
required_each(result, row, fields) ==
    IF fields = <<>> THEN result
    ELSE required_each(validate_required(result, row, Head(fields)), row, Tail(fields))

RECURSIVE decimal_each(_, _, _, _)
decimal_each(result, row, fields, min_val) ==
    IF fields = <<>> THEN result
    ELSE decimal_each(validate_decimal(result, row, Head(fields), min_val),
                      row, Tail(fields), min_val)

RECURSIVE integer_each(_, _, _, _)
integer_each(result, row, fields, min_val) ==
    IF fields = <<>> THEN result
    ELSE integer_each(validate_integer(result, row, Head(fields), min_val),
                      row, Tail(fields), min_val)

RECURSIVE date_each(_, _, _)
date_each(result, row, fields) ==
    IF fields = <<>> THEN result
    ELSE date_each(validate_date(result, row, Head(fields)), row, Tail(fields))

\* field_validators.py 8-15
COMMON_REQUIRED ==
    <<"loan_account_number", "customer_id", "customer_type",
      "loan_status_code", "original_loan_amount", "outstanding_principal_balance">>

VALID_CUSTOMER_TYPES == {<<"I">>, <<"T">>, <<"V">>}
VALID_STATUS_CODES == {<<"A">>, <<"K">>}

\* field_validators.py 31-38, 41-46, 47-48, 51-54
CreditDecimals ==
    <<"original_loan_amount", "outstanding_principal_balance",
      "nominal_interest_rate", "total_interest_amount", "kkdf_rate",
      "kkdf_amount", "bsmv_rate", "bsmv_amount">>

CreditCounts ==
    <<"days_past_due", "total_installment_count", "outstanding_installment_count",
      "paid_installment_count", "grace_period_months", "installment_frequency">>

CreditRatings == <<"internal_rating", "external_rating">>

CreditDates ==
    <<"final_maturity_date", "first_payment_date", "loan_start_date",
      "loan_closing_date">>

\* field_validators.py 17-76, CreditFieldValidator.validate_row
credit_validate_row(row, loan_type) ==
    LET r1 == required_each(ValidationResult, row, COMMON_REQUIRED)
        r2 == validate_in_set(r1, row, "customer_type", VALID_CUSTOMER_TYPES)
        r3 == validate_in_set(r2, row, "loan_status_code", VALID_STATUS_CODES)
        r4 == decimal_each(r3, row, CreditDecimals, {0})
        r5 == integer_each(r4, row, CreditCounts, {0})
        r6 == integer_each(r5, row, CreditRatings, None)
        r7 == date_each(r6, row, CreditDates)
        insurance == strip(get(row, "insurance_included"))
        r8 == IF /\ loan_type = "RETAIL"
                 /\ insurance # <<>> /\ insurance \notin {<<"H">>, <<"E">>}
                 THEN add_error(r7, "insurance_included", "VALUE")
                 ELSE r7
        c1 == integer_each(r8, row, <<"loan_product_type", "sector_code",
                                      "internal_credit_rating">>, None)
        c2 == validate_decimal(c1, row, "default_probability", {0})
        c3 == integer_each(c2, row, <<"risk_class", "customer_segment">>, None)
        c4 == validate_in_set(c3, row, "loan_status_flag", VALID_STATUS_CODES)
    IN  IF loan_type = "COMMERCIAL" THEN c4 ELSE r8

\* field_validators.py 82-87
REQUIRED_FIELDS ==
    <<"loan_account_number", "installment_number", "installment_amount",
      "principal_component">>

VALID_STATUSES == {<<"A">>, <<"K">>}

\* field_validators.py 101-109, 115-116
PaymentDecimals ==
    <<"installment_amount", "principal_component", "interest_component",
      "kkdf_component", "bsmv_component", "remaining_principal",
      "remaining_interest", "remaining_kkdf", "remaining_bsmv">>

PaymentDates == <<"actual_payment_date", "scheduled_payment_date">>

\* field_validators.py 89-117, PaymentFieldValidator.validate_row
payment_validate_row(row, loan_type) ==
    LET r1 == required_each(ValidationResult, row, REQUIRED_FIELDS)
        r2 == validate_integer(r1, row, "installment_number", {1})
        r3 == decimal_each(r2, row, PaymentDecimals, {0})
        r4 == validate_in_set(r3, row, "installment_status", VALID_STATUSES)
    IN  date_each(r4, row, PaymentDates)

\* ------------------------------------------------------------ rows
\* the spellings a field takes in the rows that are validated
Blanks == {<<>>, <<" ">>}
Codes == {<<"A">>, <<" ", "K">>, <<"X">>}
Amounts == {<<"a", "b", "c">>, <<"-", "1">>, <<"1", ".", "5">>, <<"0">>}
Counts == {<<"1", ".", "5">>, <<"-", "1">>, <<"0">>, <<"1", " ">>}
Dates ==
    { <<"2", "0", "2", "6", "0", "3", "0", "2">>,
      <<"2", "0", "2", "6", "-", "0", "3", "-", "0", "2">>,
      <<"2", "0", "2", "6", "1", "3", "0", "2">>,
      <<"1", "8", "9", "9", "0", "1", "0", "1">>,
      <<"2", "0", "2", "6", "-", "3", "-", "2">> }

\* the row without one of its keys
Without(row, field_name) ==
    [f \in DOMAIN row \ {field_name} |-> row[f]]

CreditRows ==
    LET full ==
          { [loan_account_number |-> a, customer_id |-> <<"7">>,
             customer_type |-> b, loan_status_code |-> <<"A">>,
             original_loan_amount |-> c,
             outstanding_principal_balance |-> <<"0">>,
             days_past_due |-> d, final_maturity_date |-> e,
             insurance_included |-> f, loan_status_flag |-> g] :
              a \in {<<>>, <<" ">>, <<" ", "L", "B">>},
              b \in {<<>>, <<"I">>, <<"X">>},
              c \in {<<>>, <<"a", "b", "c">>, <<"-", "1">>, <<"1", ".", "5">>},
              d \in {<<>>, <<"1", ".", "5">>, <<"-", "1">>, <<"0">>},
              e \in {<<>>} \cup Dates,
              f \in {<<>>, <<"E">>, <<"X">>},
              g \in {<<" ">>, <<"K">>, <<"X">>} }
    IN  full \cup {Without(row, "customer_id") : row \in full}

PaymentRows ==
    { [loan_account_number |-> a, installment_number |-> b,
       installment_amount |-> c, principal_component |-> <<"0">>,
       installment_status |-> d, actual_payment_date |-> e] :
        a \in Blanks \cup {<<"L", "B">>},
        b \in Blanks \cup Counts \cup {<<"1">>},
        c \in Blanks \cup Amounts,
        d \in Blanks \cup Codes,
        e \in Blanks \cup Dates }

\* ------------------------------------------------------------ ValidatorSpec
\* The two field validators on their own: a row and a loan type are
\* drawn, and validate_row is called on them.

\* the sync engine takes no part
NoSync ==
    /\ inv = <<>> /\ sync_log = <<>> /\ sync_logs = <<>> /\ lock = <<>>
    /\ upload = <<>> /\ staging_credit = {} /\ staging_payment = {}
    /\ fact_credit = {} /\ fact_payment = {} /\ cache = <<>> /\ files = <<>>
    /\ hist = <<>> /\ faults = 0 /\ expiries = 0

ValidatorInit ==
    /\ NoSync
    /\ extbank = <<>>
    /\ call \in
          { [fn |-> "CreditFieldValidator.validate_row", row |-> row,
             loan_type |-> lt, returned |-> FALSE, result |-> ValidationResult] :
                row \in CreditRows, lt \in LoanTypes }
          \cup
          { [fn |-> "PaymentFieldValidator.validate_row", row |-> row,
             loan_type |-> lt, returned |-> FALSE, result |-> ValidationResult] :
                row \in PaymentRows, lt \in LoanTypes }

ValidateCredit ==
    /\ call.fn = "CreditFieldValidator.validate_row" /\ ~call.returned
    /\ call' = [call EXCEPT !.returned = TRUE,
                            !.result = credit_validate_row(call.row, call.loan_type)]
    /\ UNCHANGED <<sync_vars, extbank>>

ValidatePayment ==
    /\ call.fn = "PaymentFieldValidator.validate_row" /\ ~call.returned
    /\ call' = [call EXCEPT !.returned = TRUE,
                            !.result = payment_validate_row(call.row, call.loan_type)]
    /\ UNCHANGED <<sync_vars, extbank>>

ValidatorNext == ValidateCredit \/ ValidatePayment

ValidatorSpec == ValidatorInit /\ [][ValidatorNext]_vars

\* ------------------------------------------------------------ C22
\* The rule of each field, as field_validators.py lists them.
Blank(value) == \A i \in 1..Len(value) : value[i] = " "

IsValidatorCall ==
    call.fn \in {"CreditFieldValidator.validate_row",
                 "PaymentFieldValidator.validate_row"}

IsCredit == call.fn = "CreditFieldValidator.validate_row"

RequiredFields ==
    IF IsCredit
       THEN {"loan_account_number", "customer_id", "customer_type",
             "loan_status_code", "original_loan_amount",
             "outstanding_principal_balance"}
       ELSE {"loan_account_number", "installment_number", "installment_amount",
             "principal_component"}

\* the allowed values of an enumerated field of this file and loan type
\* (empty for a field that is not enumerated)
EnumOf(field_name, loan_type) ==
    IF IsCredit
       THEN CASE field_name = "customer_type" -> {"I", "T", "V"}
              [] field_name = "loan_status_code" -> {"A", "K"}
              [] field_name = "insurance_included" /\ loan_type = "RETAIL" -> {"H", "E"}
              [] field_name = "loan_status_flag" /\ loan_type = "COMMERCIAL" -> {"A", "K"}
              [] OTHER -> {}
       ELSE IF field_name = "installment_status" THEN {"A", "K"} ELSE {}

NonNegativeDecimals ==
    IF IsCredit
       THEN {"original_loan_amount", "outstanding_principal_balance"}
       ELSE {"installment_amount", "principal_component"}

\* the trimmed value spells a number that is not below zero
IsNonNegativeDecimal(value) ==
    LET v == float(strip(value)) IN v.ok /\ v.num >= 0

\* the trimmed value spells an integer that is at least least
IsIntegerFrom(value, least) ==
    LET v == int(strip(value)) IN v.ok /\ v.val >= least

\* the trimmed value is YYYYMMDD or YYYY-MM-DD with its year in 1900..2100,
\* its month in 1..12 and its day in 1..31
IsDateSpelling(value) ==
    LET clean == replace(strip(value), "-")
    IN  /\ Len(clean) = 8 /\ isdigit(clean)
        /\ ToNat(SubSeq(clean, 1, 4)) \in MIN_YEAR..MAX_YEAR
        /\ ToNat(SubSeq(clean, 5, 6)) \in 1..MAX_MONTH
        /\ ToNat(SubSeq(clean, 7, 8)) \in 1..MAX_DAY

\* a non-blank value satisfies the rule of its field
SatisfiesRule(field_name, value, loan_type) ==
    /\ EnumOf(field_name, loan_type) # {} =>
          \E code \in EnumOf(field_name, loan_type) : strip(value) = <<code>>
    /\ field_name \in NonNegativeDecimals => IsNonNegativeDecimal(value)
    /\ field_name = "days_past_due" /\ IsCredit => IsIntegerFrom(value, 0)
    /\ field_name = "installment_number" => IsIntegerFrom(value, 1)
    /\ field_name \in {"final_maturity_date", "actual_payment_date"} =>
          IsDateSpelling(value)

PyStr(s) == [t |-> "str", s |-> s]
PyInt(n) == [t |-> "int", n |-> n]
PyNone == [t |-> "NoneType"]
PyDecimal(num, den) == [t |-> "Decimal", num |-> num, den |-> den]
PyDate(year, month, day) ==
    [t |-> "date", year |-> year, month |-> month, day |-> day]

\* bool(value), as `not value` reads it
Truthy(value) ==
    CASE value.t = "str" -> value.s # <<>>
      [] value.t = "int" -> value.n # 0
      [] value.t = "Decimal" -> value.num # 0
      [] value.t = "NoneType" -> FALSE
      [] OTHER -> TRUE

\* the decimal digits of a natural number
RECURSIVE Digits(_)
Digits(n) ==
    IF n < 10 THEN <<DigitChars[n + 1]>>
    ELSE Digits(n \div 10) \o <<DigitChars[(n % 10) + 1]>>

\* the number of digits behind the point of a Decimal with denominator den
RECURSIVE Scale(_)
Scale(den) == IF den = 1 THEN 0 ELSE 1 + Scale(den \div 10)

\* the digits of n, with zeros in front up to width
RECURSIVE ZeroFill(_, _)
ZeroFill(digits, width) ==
    IF Len(digits) >= width THEN digits ELSE ZeroFill(<<"0">> \o digits, width)

\* a number that is not negative, in positional notation
Positional(num, den) ==
    IF den = 1 THEN Digits(num)
    ELSE Digits(num \div den) \o <<".">> \o ZeroFill(Digits(num % den), Scale(den))

\* str(value)
str(value) ==
    CASE value.t = "str" -> value.s
      [] value.t = "Decimal" ->
            IF value.num < 0 THEN <<"-">> \o Positional(0 - value.num, value.den)
            ELSE Positional(value.num, value.den)
      [] value.t = "int" -> Digits(value.n)
      [] OTHER -> <<"N", "o", "n", "e">>

\* Decimal(text): positional notation, as float() above
Decimal(text) ==
    LET parsed == float(text)
    IN  IF parsed.ok THEN [ok |-> TRUE, d |-> PyDecimal(parsed.num, parsed.den)]
        ELSE ValueError

\* the percentage threshold and divisor of rate_normalizer.py 32-33
RATE_THRESHOLD == 1
RATE_DIVISOR == 100

\* rate_normalizer.py 26-36, _normalize_rate
normalize_rate(value) ==
    IF ~Truthy(value) \/ strip(str(value)) = <<>> THEN PyDecimal(0, 1)
    ELSE LET rate == Decimal(strip(str(value)))
         IN  IF ~rate.ok THEN PyDecimal(0, 1)
             ELSE IF rate.d.num > RATE_THRESHOLD * rate.d.den
                     THEN PyDecimal(rate.d.num, rate.d.den * RATE_DIVISOR)
                     ELSE rate.d

\* the labels of category_normalizer.py 15-24
INDIVIDUAL == <<"I", "N", "D", "I", "V", "I", "D", "U", "A", "L">>
TRADE == <<"T", "R", "A", "D", "E">>
VIP == <<"V", "I", "P">>
ACTIVE == <<"A", "C", "T", "I", "V", "E">>
CLOSED == <<"C", "L", "O", "S", "E", "D">>

\* category_normalizer.py 15-29
CUSTOMER_TYPE_MAP ==
    (<<"I">> :> PyStr(INDIVIDUAL)) @@ (<<"T">> :> PyStr(TRADE))
        @@ (<<"V">> :> PyStr(VIP))

STATUS_MAP == (<<"A">> :> PyStr(ACTIVE)) @@ (<<"K">> :> PyStr(CLOSED))

INSURANCE_MAP == (<<"H">> :> PyInt(0)) @@ (<<"E">> :> PyInt(1))

\* dict.get(key, default)
dict_get(dict, key, default) ==
    IF key \in DOMAIN dict THEN dict[key] ELSE default

\* record[key] = value
dict_set(dict, key, value) ==
    [k \in DOMAIN dict \cup {key} |-> IF k = key THEN value ELSE dict[k]]

\* what a normalizer call ends with: the record it returns, or the
\* exception of calling .strip() on a value that is not a str
Gives(record) == [raised |-> FALSE, record |-> record]
AttributeError == [raised |-> TRUE, record |-> <<>>]

\* record[field] = MAP.get(raw, default) with raw = record.get(field, '').strip();
\* the default is raw itself, or None
map_field_ToNone(record, field_name, map) ==
    LET value == dict_get(record, field_name, PyStr(<<>>))
    IN  IF value.t # "str" THEN AttributeError
        ELSE Gives(dict_set(record, field_name,
                               dict_get(map, strip(value.s), PyNone)))

map_field(record, field_name, map) ==
    LET value == dict_get(record, field_name, PyStr(<<>>))
    IN  IF value.t # "str" THEN AttributeError
        ELSE Gives(dict_set(record, field_name,
                               dict_get(map, strip(value.s), PyStr(strip(value.s)))))

\* category_normalizer.py 44
map_insurance(record) == map_field_ToNone(record, "insurance_included", INSURANCE_MAP)

\* category_normalizer.py 31-51, CategoryNormalizer.normalize_credit
category_normalize_credit(record, loan_type) ==
    LET r1 == map_field(record, "customer_type", CUSTOMER_TYPE_MAP)
        r2 == IF r1.raised THEN r1
              ELSE map_field(r1.record, "loan_status_code", STATUS_MAP)
        r3 == IF r2.raised \/ loan_type # "RETAIL" THEN r2
              ELSE map_insurance(r2.record)
        r4 == IF r3.raised \/ loan_type # "COMMERCIAL" THEN r3
              ELSE map_field(r3.record, "loan_status_flag", STATUS_MAP)
    IN  r4

\* category_normalizer.py 53-57, CategoryNormalizer.normalize_payment
category_normalize_payment(record) ==
    map_field(record, "installment_status", STATUS_MAP)

\* datetime.date: MINYEAR, MAXYEAR, and the days of each month
MINYEAR == 1
MAXYEAR == 9999

IsLeap(year) == year % 4 = 0 /\ (year % 100 # 0 \/ year % 400 = 0)

DaysInMonth(year, month) ==
    CASE month = 2 -> IF IsLeap(year) THEN 29 ELSE 28
      [] month \in {4, 6, 9, 11} -> 30
      [] OTHER -> 31

\* date(year, month, day): ValueError unless it is a day of the calendar
date(year, month, day) ==
    IF /\ year.ok /\ month.ok /\ day.ok
       /\ MINYEAR <= year.val /\ year.val <= MAXYEAR
       /\ 1 <= month.val /\ month.val <= 12
       /\ 1 <= day.val /\ day.val <= DaysInMonth(year.val, month.val)
       THEN [ok |-> TRUE, d |-> PyDate(year.val, month.val, day.val)]
       ELSE ValueError

\* value[i:j] of Python, on the 1-based sequence
slice(s, i, j) == SubSeq(s, i + 1, Min(j, Len(s)))

\* int(text): surrounding blanks are skipped
int_of(text) == int(strip(text))

\* date_normalizer.py 36-57, _normalize_date
normalize_date_DashedOnly(value) ==
    IF ~Truthy(value) \/ strip(value.s) = <<>> THEN PyNone
    ELSE LET v == strip(value.s)
         IN  IF Len(v) = 10 /\ v[5] = "-" /\ v[8] = "-"
                THEN LET made == date(int_of(slice(v, 0, 4)), int_of(slice(v, 5, 7)),
                                      int_of(slice(v, 8, 10)))
                     IN  IF made.ok THEN made.d ELSE PyNone
                ELSE PyNone

normalize_date(value) ==
    IF ~Truthy(value) \/ strip(value.s) = <<>> THEN PyNone
    ELSE LET v     == strip(value.s)
             clean == replace(v, "-")
         IN  IF Len(v) = 10 /\ v[5] = "-" /\ v[8] = "-"
                THEN LET made == date(int_of(slice(v, 0, 4)), int_of(slice(v, 5, 7)),
                                      int_of(slice(v, 8, 10)))
                     IN  IF made.ok THEN made.d ELSE PyNone
             ELSE IF Len(clean) = 8 /\ isdigit(clean)
                THEN LET made == date(int_of(slice(clean, 0, 4)),
                                      int_of(slice(clean, 4, 6)),
                                      int_of(slice(clean, 6, 8)))
                     IN  IF made.ok THEN made.d ELSE PyNone
             ELSE PyNone

\* ------------------------------------------------------------ NormalizerSpec
\* The normalizers on their own: an input is drawn, the normalizer is
\* called on it, and then called again on what it returned.

\* the largest rate spelled as a whole number
MaxRate == 150

\* n hundredths spelled with two decimals
Hundredths(n) == Digits(n \div 100) \o <<".">> \o ZeroFill(Digits(n % 100), 2)

RateInputs ==
    {Digits(n) : n \in 0..MaxRate}
        \cup {Hundredths(n) : n \in 0..MaxRate}
        \cup {<<>>, <<" ">>, <<"a", "b", "c">>, <<"-", "1">>, <<" ", "5", " ">>}

RateCalls ==
    { [fn |-> "RateNormalizer._normalize_rate", value |-> PyStr(s),
       calls |-> 0, result |-> PyNone, again |-> PyNone] : s \in RateInputs }

NormalizeRate ==
    /\ call.fn = "RateNormalizer._normalize_rate" /\ call.calls = 0
    /\ call' = [call EXCEPT !.calls = 1, !.result = normalize_rate(call.value)]
    /\ UNCHANGED <<sync_vars, extbank>>

NormalizeRateAgain ==
    /\ call.fn = "RateNormalizer._normalize_rate" /\ call.calls = 1
    /\ call' = [call EXCEPT !.calls = 2, !.again = normalize_rate(call.result)]
    /\ UNCHANGED <<sync_vars, extbank>>

\* the records the category normalizer is called on: every field is a
\* str as uploaded, or its key is missing
FieldChoices(field_name, spellings) ==
    {(field_name :> PyStr(sp)) : sp \in spellings} \cup {<<>>}

\* the records that take one choice for each field
Merge(a, b) == [k \in DOMAIN a \cup DOMAIN b |-> IF k \in DOMAIN a THEN a[k] ELSE b[k]]

CategoryCreditRecords ==
    { Merge(Merge(ct, st), Merge(ins, flag)) :
        ct \in FieldChoices("customer_type", {<<"I">>, <<" ", "T">>, <<"X">>}),
        st \in FieldChoices("loan_status_code", {<<"A">>, <<"K">>, <<"Z">>}),
        ins \in FieldChoices("insurance_included", {<<"H">>, <<"E">>, <<"X">>, <<>>}),
        flag \in FieldChoices("loan_status_flag", {<<"A">>, <<"X">>}) }

CategoryPaymentRecords ==
    { Merge(st, (("loan_account_number") :> PyStr(<<"L", "B">>))) :
        st \in FieldChoices("installment_status",
                            {<<"A">>, <<"K">>, <<" ", "K", " ">>, <<"X">>, <<>>}) }

CategoryCalls ==
    { [fn |-> "CategoryNormalizer.normalize_credit", record |-> rec,
       loan_type |-> lt, calls |-> 0,
       result |-> Gives(<<>>), again |-> Gives(<<>>)] :
          rec \in CategoryCreditRecords, lt \in LoanTypes }
    \cup
    { [fn |-> "CategoryNormalizer.normalize_payment", record |-> rec,
       loan_type |-> lt, calls |-> 0,
       result |-> Gives(<<>>), again |-> Gives(<<>>)] :
          rec \in CategoryPaymentRecords, lt \in LoanTypes }

NormalizeCredit ==
    /\ call.fn = "CategoryNormalizer.normalize_credit" /\ call.calls = 0
    /\ call' = [call EXCEPT !.calls = 1,
                  !.result = category_normalize_credit(call.record, call.loan_type)]
    /\ UNCHANGED <<sync_vars, extbank>>

\* normalize_credit on the record it returned
NormalizeCreditAgain ==
    /\ call.fn = "CategoryNormalizer.normalize_credit" /\ call.calls = 1
    /\ ~call.result.raised
    /\ call' = [call EXCEPT !.calls = 2,
                  !.again = category_normalize_credit(call.result.record, call.loan_type)]
    /\ UNCHANGED <<sync_vars, extbank>>

NormalizePayment ==
    /\ call.fn = "CategoryNormalizer.normalize_payment" /\ call.calls = 0
    /\ call' = [call EXCEPT !.calls = 1,
                  !.result = category_normalize_payment(call.record)]
    /\ UNCHANGED <<sync_vars, extbank>>

NormalizePaymentAgain ==
    /\ call.fn = "CategoryNormalizer.normalize_payment" /\ call.calls = 1
    /\ ~call.result.raised
    /\ call' = [call EXCEPT !.calls = 2,
                  !.again = category_normalize_payment(call.result.record)]
    /\ UNCHANGED <<sync_vars, extbank>>

\* the years, months and days the date inputs spell (the calendar has no
\* month 0 or 13 and no day 0 or 32)
Years == {0, 1900, 2000, 2024, 2025}
Months == 0..13
Days == 0..32

\* 'YYYY-MM-DD' and 'YYYYMMDD'
Dashed(year, month, day) ==
    ZeroFill(Digits(year), 4) \o <<"-">> \o ZeroFill(Digits(month), 2)
        \o <<"-">> \o ZeroFill(Digits(day), 2)

Plain(year, month, day) ==
    ZeroFill(Digits(year), 4) \o ZeroFill(Digits(month), 2)
        \o ZeroFill(Digits(day), 2)

\* what is no date in either spelling
Unparseable ==
    { <<>>, <<" ">>, <<"a", "b", "c">>,
      <<"2", "0", "2", "5", "/", "0", "3", "/", "0", "2">>,
      <<"2", "0", "2", "5", "0", "3", "0">>,
      <<"2", "0", "2", "5", "-", "0", "3", "-", "0", "x">>,
      <<"0", "2", "-", "0", "3", "-", "2", "0", "2", "5">> }

DateCalls ==
    { [fn |-> "DateNormalizer._normalize_date",
       spelling |-> sp, year |-> y, month |-> m, day |-> d,
       value |-> PyStr(IF sp = "YYYY-MM-DD" THEN Dashed(y, m, d) ELSE Plain(y, m, d)),
       calls |-> 0, result |-> PyNone] :
          sp \in {"YYYY-MM-DD", "YYYYMMDD"}, y \in Years, m \in Months, d \in Days }
    \cup
    { [fn |-> "DateNormalizer._normalize_date",
       spelling |-> "none", year |-> 0, month |-> 0, day |-> 0,
       value |-> PyStr(s), calls |-> 0, result |-> PyNone] : s \in Unparseable }

NormalizeDate ==
    /\ call.fn = "DateNormalizer._normalize_date" /\ call.calls = 0
    /\ call' = [call EXCEPT !.calls = 1, !.result = normalize_date(call.value)]
    /\ UNCHANGED <<sync_vars, extbank>>

NormalizerInit ==
    /\ NoSync
    /\ extbank = <<>>
    /\ call \in RateCalls \cup CategoryCalls \cup DateCalls

NormalizerNext ==
    \/ NormalizeRate
    \/ NormalizeRateAgain
    \/ NormalizeCredit
    \/ NormalizeCreditAgain
    \/ NormalizePayment
    \/ NormalizePaymentAgain
    \/ NormalizeDate

NormalizerSpec == NormalizerInit /\ [][NormalizerNext]_vars

\* ------------------------------------------------------------ C23
\* two Decimals are the same number
SameNumber(a, b) == a.num * b.den = b.num * a.den

\* the input spells a decimal that is not negative
ParseableNonNegative(value) ==
    LET parsed == Decimal(strip(str(value)))
    IN  parsed.ok /\ parsed.d.num >= 0

\* C23: for every parseable non-negative decimal x the rate normalizer
\* returns a value in [0, 1], and normalizing that value again returns it
\* unchanged.
C23_RateInUnitIntervalAndIdempotent ==
    ( /\ call.fn = "RateNormalizer._normalize_rate"
      /\ ParseableNonNegative(call.value) ) =>
        /\ call.calls >= 1 =>
              /\ 0 <= call.result.num
              /\ call.result.num <= call.result.den
        /\ call.calls = 2 => SameNumber(call.again, call.result)

\* ------------------------------------------------------------ C24, C26
IsCategoryCall ==
    call.fn \in {"CategoryNormalizer.normalize_credit",
                 "CategoryNormalizer.normalize_payment"}

\* the category fields of the call and the code table of each
CategoryFields ==
    IF call.fn = "CategoryNormalizer.normalize_payment"
       THEN ("installment_status" :> STATUS_MAP)
       ELSE ("customer_type" :> CUSTOMER_TYPE_MAP)
               @@ ("loan_status_code" :> STATUS_MAP)
               @@ (IF call.loan_type = "RETAIL"
                      THEN ("insurance_included" :> INSURANCE_MAP)
                      ELSE ("loan_status_flag" :> STATUS_MAP))

\* C24: each category field of the returned record holds the mapped label
\* when the (trimmed) input is a mapped code and the (trimmed) input itself
\* otherwise, and normalize_credit / normalize_payment called on its own
\* output returns the same record without failing.
C24_CategoryPassThroughAndIdempotent ==
    IsCategoryCall =>
        /\ call.calls >= 1 =>
              /\ ~call.result.raised
              /\ \A f \in DOMAIN CategoryFields \cap DOMAIN call.record :
                    LET raw == strip(call.record[f].s)
                    IN  call.result.record[f] =
                            IF raw \in DOMAIN CategoryFields[f]
                               THEN CategoryFields[f][raw]
                               ELSE PyStr(raw)
        /\ call.calls = 2 =>
              /\ ~call.again.raised
              /\ call.again.record = call.result.record

\* C26: normalize_credit for loan type COMMERCIAL returns a record that has
\* no loan_status_flag key.
C26_CommercialFlagRemoved ==
    ( /\ call.fn = "CategoryNormalizer.normalize_credit"
      /\ call.loan_type = "COMMERCIAL"
      /\ call.calls >= 1 /\ ~call.result.raised ) =>
          "loan_status_flag" \notin DOMAIN call.result.record

\* ------------------------------------------------------------ C25
\* (year, month, day) is a day of the calendar
IsCalendarDate(year, month, day) ==
    /\ year \in MINYEAR..MAXYEAR
    /\ month \in 1..12
    /\ day \in 1..DaysInMonth(year, month)

\* C25: the date normalizer returns the same calendar date for the
\* 'YYYY-MM-DD' and the 'YYYYMMDD' spelling of every valid calendar date,
\* namely that date, and returns null, without failing, for an empty input
\* and for one that spells no date.
C25_BothSpellingsSameDate ==
    (call.fn = "DateNormalizer._normalize_date" /\ call.calls = 1) =>
        call.result =
            IF /\ call.spelling \in {"YYYY-MM-DD", "YYYYMMDD"}
               /\ IsCalendarDate(call.year, call.month, call.day)
               THEN PyDate(call.year, call.month, call.day)
               ELSE PyNone

\* C25 witness: 29 February 2024 spelled '20240229' was normalized to that
\* date.
C25_Witness ==
    /\ call.fn = "DateNormalizer._normalize_date" /\ call.calls = 1
    /\ call.spelling = "YYYYMMDD"
    /\ call.value = PyStr(<<"2", "0", "2", "4", "0", "2", "2", "9">>)
    /\ call.result = PyDate(2024, 2, 29)

\* ============================================================ upload store
\* The extbank: keys of storage.py, key by key.  The keys of one
\* (tenant, loan_type, file_type) are its chunk keys chunk:0, chunk:1, ...,
\* its chunks key (the chunk count) and its count key (the row count).  A
\* key that does not exist reads as the empty byte string.

\* the longest upload, in rows
MaxRows == 3

Tenants == {"BANK001", "BANK002"}

\* the datasets that take part: two of one tenant, one of another
StoreKeys ==
    { <<"BANK001", "RETAIL", "credit">>, <<"BANK001", "RETAIL", "payment_plan">>,
      <<"BANK002", "RETAIL", "credit">> }

\* the uploads: no row, one row, and the two longest ones (rows 1..n in
\* file order)
Uploads == {[i \in 1..n |-> i] : n \in {0, 1, MaxRows - 1, MaxRows}}

\* the chunk indexes a dataset may hold
ChunkIdx == 0..((MaxRows - 1) \div CHUNK_SIZE)

\* _redis.get of a key that does not exist
Nil == <<>>

\* storage.py 63-70: _compress / _decompress of a chunk (an opaque value
\* that is never the empty byte string)
compress(data) == <<data>>
decompress(raw) == raw[1]

\* redis stores an int as its decimal digits
bytes_of(n) == Digits(n)

\* the keys of a dataset that holds nothing
NoKeys == [chunk |-> [i \in ChunkIdx |-> Nil], chunks |-> Nil, count |-> Nil]

\* storage.py 201-204
get_num_chunks(ds) == IF ds.chunks # Nil THEN int(ds.chunks).val ELSE 0

\* storage.py 171-174
get_row_count(ds) == IF ds.count # Nil THEN int(ds.count).val ELSE 0

\* storage.py 191-198: the chunk keys below the stored chunk count are deleted
clear_chunks(ds) ==
    [ds EXCEPT !.chunk = [i \in ChunkIdx |->
                            IF i < get_num_chunks(ds) THEN Nil ELSE ds.chunk[i]]]

\* storage.py 82-87: chunk i (from 0) of the records
chunk_of(records, i) ==
    SubSeq(records, i * CHUNK_SIZE + 1, Min((i + 1) * CHUNK_SIZE, Len(records)))

NumChunks(records) == (Len(records) + CHUNK_SIZE - 1) \div CHUNK_SIZE

\* the first n chunk keys are set to the chunks of the records
set_chunks(ds, records, n) ==
    [ds EXCEPT !.chunk = [i \in ChunkIdx |->
                            IF i < n THEN compress(chunk_of(records, i))
                            ELSE ds.chunk[i]]]

\* storage.py 89-93: the row count and the chunk count are set
set_metadata_CountOnly(ds, total_rows, chunk_idx) ==
    [ds EXCEPT !.count = bytes_of(total_rows)]

set_metadata(ds, total_rows, chunk_idx) ==
    [ds EXCEPT !.count = bytes_of(total_rows), !.chunks = bytes_of(chunk_idx)]

\* storage.py 73-99, store_data on the keys of its dataset
store_data_keys(ds, records) ==
    set_metadata(set_chunks(clear_chunks(ds), records, NumChunks(records)),
                 Len(records), NumChunks(records))

\* storage.py 142-155, get_data: the chunks below the chunk count, in
\* order, a missing one skipped
RECURSIVE concat_chunks(_, _, _)
concat_chunks(ds, i, n) ==
    IF i >= n THEN <<>>
    ELSE (IF ds.chunk[i] # Nil THEN decompress(ds.chunk[i]) ELSE <<>>)
            \o concat_chunks(ds, i + 1, n)

get_data(ds) ==
    IF get_num_chunks(ds) = 0 THEN <<>>
    ELSE concat_chunks(ds, 0, get_num_chunks(ds))

\* storage.py 186 and 257-260: the keys that match extbank:{tenant_id}:*
matches_tenant_Any(key, tenant_id) == TRUE

matches_tenant(key, tenant_id) == key[1] = tenant_id

\* an argument that is not given
Missing == ""

\* storage.py 177-188, clear_data(tenant_id, loan_type, file_type) on the
\* whole store
clear_data_keys(store, tenant_id, loan_type, file_type) ==
    IF tenant_id # Missing /\ loan_type # Missing /\ file_type # Missing
       THEN [k \in DOMAIN store |->
                IF k = <<tenant_id, loan_type, file_type>>
                   THEN [clear_chunks(store[k]) EXCEPT !.count = Nil, !.chunks = Nil]
                   ELSE store[k]]
    ELSE IF tenant_id # Missing
       THEN [k \in DOMAIN store |->
                IF matches_tenant(k, tenant_id) THEN NoKeys ELSE store[k]]
    ELSE [k \in DOMAIN store |-> NoKeys]

\* ------------------------------------------------------------ StoreSpec
\* The upload store on its own: uploads and clears of the datasets, in
\* any order; call is the call that was made last.
StoreInit ==
    /\ NoSync
    /\ extbank = [k \in StoreKeys |-> NoKeys]
    /\ call = NoCall

\* storage.py 73-99
StoreData(k, records) ==
    /\ extbank' = [extbank EXCEPT ![k] = store_data_keys(extbank[k], records)]
    /\ call' = [fn |-> "store_data", key |-> k, records |-> records,
                chunks_before |-> get_num_chunks(extbank[k])]
    /\ UNCHANGED sync_vars

\* storage.py 102-128: store_data_streaming whose worker dies after n
\* chunk keys are set and before the metadata is written
StreamInterrupted(k, records, n) ==
    /\ n \in 1..NumChunks(records)
    /\ extbank' = [extbank EXCEPT ![k] = set_chunks(clear_chunks(extbank[k]), records, n)]
    /\ call' = [fn |-> "store_data_streaming", key |-> k, records |-> records,
                chunks_before |-> get_num_chunks(extbank[k])]
    /\ UNCHANGED sync_vars

\* storage.py 177-188, with the arguments a caller may leave out
ClearData(tenant_id, loan_type, file_type) ==
    /\ extbank' = clear_data_keys(extbank, tenant_id, loan_type, file_type)
    /\ call' = [fn |-> "clear_data", key |-> <<tenant_id, loan_type, file_type>>,
                held |-> {k \in StoreKeys : extbank[k] # NoKeys}]
    /\ UNCHANGED sync_vars

StoreNext ==
    \/ \E k \in StoreKeys, records \in Uploads : StoreData(k, records)
    \/ \E k \in StoreKeys, records \in Uploads, n \in ChunkIdx :
          StreamInterrupted(k, records, n)
    \/ \E t \in Tenants \cup {Missing}, lt \in {"RETAIL", Missing},
          ft \in FileTypes \cup {Missing} : ClearData(t, lt, ft)

StoreSpec == StoreInit /\ [][StoreNext]_vars

\* ------------------------------------------------------------ C27
\* C27: after store_data(t, l, f, R), get_data(t, l, f) returns exactly R
\* in order and get_row_count(t, l, f) is len(R), whatever the keys of
\* (t, l, f) held before.
C27_StoreThenGetReturnsRecords ==
    call.fn = "store_data" =>
        /\ get_data(extbank[call.key]) = call.records
        /\ get_row_count(extbank[call.key]) = Len(call.records)

\* C27 witness: a one-chunk upload was stored over an upload of more
\* chunks and reads back whole.
C27_Witness ==
    /\ call.fn = "store_data"
    /\ NumChunks(call.records) = 1
    /\ call.chunks_before > 1
    /\ get_data(extbank[call.key]) = call.records

\* ------------------------------------------------------------ C28
\* the call that was just made names one whole (tenant, loan_type, file_type)
OnOneDataset(c) ==
    \/ c.fn = "store_data"
    \/ c.fn = "clear_data" /\ \A i \in 1..3 : c.key[i] # Missing

\* the call that was just made is clear_data(tenant_id)
OnOneTenant(c) ==
    c.fn = "clear_data" /\ c.key[1] # Missing /\ c.key[2] = Missing /\ c.key[3] = Missing

\* C28: store_data and clear_data applied to one (tenant, loan_type,
\* file_type) leave the rows and the row count of every other key
\* unchanged; clear_data(tenant) removes every dataset of that tenant and
\* none of any other tenant.
C28_OtherKeysUntouched ==
    [][ /\ OnOneDataset(call') =>
              \A k \in StoreKeys \ {call'.key} :
                  /\ get_data(extbank'[k]) = get_data(extbank[k])
                  /\ get_row_count(extbank'[k]) = get_row_count(extbank[k])
        /\ (call'.fn = "clear_data" /\ OnOneDataset(call')) =>
              \A k \in StoreKeys \cap {call'.key} :
                  get_data(extbank'[k]) = <<>> /\ get_row_count(extbank'[k]) = 0
        /\ OnOneTenant(call') =>
              \A k \in StoreKeys :
                  IF k[1] = call'.key[1]
                     THEN get_data(extbank'[k]) = <<>> /\ get_row_count(extbank'[k]) = 0
                     ELSE /\ get_data(extbank'[k]) = get_data(extbank[k])
                          /\ get_row_count(extbank'[k]) = get_row_count(extbank[k])
      ]_vars

\* C28 witness: clear_data('BANK001') was called when all three datasets
\* held rows; the two of BANK001 are empty and the one of BANK002 still
\* reads back its upload.
C28_Witness ==
    /\ call.fn = "clear_data"
    /\ call.key = <<"BANK001", Missing, Missing>>
    /\ call.held = StoreKeys
    /\ \A k \in StoreKeys : k[1] = "BANK001" => get_data(extbank[k]) = <<>>
    /\ get_data(extbank[<<"BANK002", "RETAIL", "credit">>]) = [i \in 1..MaxRows |-> i]

\* ---------------------------------------------------------------------------
\* The wait loop of sync(wait_for_lock = True)

IsWaiting(p) == inv[p].pc = "waiting"

KeyAbsent(p) == lock[inv[p].loan_type] = NoHolder

\* an attempt of the wait loop: the step of a waiting invocation that sets
\* the key again
Attempt(p) == IsWaiting(p) /\ inv'[p] # inv[p] /\ inv'[p].pc # "escaped"

\* C29: a sync called with wait_for_lock = true always ends.  While it
\* waits it has counted fewer than SYNC_LOCK_TTL seconds; every attempt
\* comes POLL_SECONDS after the one before; the first attempt that finds
\* the key absent takes the key and goes on to the pipeline; the call
\* gives up (and reports "Concurrent sync in progress") only at an attempt
\* that finds the key present once SYNC_LOCK_TTL seconds are counted, so
\* only after every attempt found it present.
C29_WaitingSyncEnds ==
    /\ [](\A p \in Procs : IsWaiting(p) =>
              /\ inv[p].wait_for_lock
              /\ ~inv[p].acquired
              /\ inv[p].waited < SYNC_LOCK_TTL)
    /\ [][\A p \in Procs : Attempt(p) =>
              /\ KeyAbsent(p) =>
                    /\ inv'[p].pc = "open_log"
                    /\ inv'[p].acquired
                    /\ lock'[inv[p].loan_type] = p
              /\ ~KeyAbsent(p) =>
                    /\ inv'[p].pc \in {"waiting", "reject"}
                    /\ ~inv'[p].acquired
                    /\ UNCHANGED lock
              /\ inv'[p].pc = "waiting" =>
                    inv'[p].waited = inv[p].waited + POLL_SECONDS
              /\ inv'[p].pc = "reject" =>
                    inv[p].waited + POLL_SECONDS >= SYNC_LOCK_TTL]_vars
    /\ [][\A p \in Procs :
              (inv[p].pc # "reject" /\ inv'[p].pc = "reject"
                     /\ inv'[p].wait_for_lock)
                  => IsWaiting(p) /\ ~KeyAbsent(p)]_vars
    /\ \A p \in Procs : IsWaiting(p) ~> (Ended(p) \/ Killed(p))

\* a waiting invocation has just taken the key at a later attempt
C29_Witness ==
    \E p \in Procs :
        /\ inv[p].pc = "open_log"
        /\ inv[p].waited >= POLL_SECONDS
        /\ inv[p].acquired
        /\ lock[inv[p].loan_type] = p

\* ---------------------------------------------------------------------------
\* The statuses an invocation persists

\* adapter.models.SyncLog.STATUS_CHOICES in the order the pipeline writes
\* them (engine.py 119, 138, 150, 175, 183)
StatusRank ==
    [s \in {"STARTED", "FETCHING", "VALIDATING", "NORMALIZING", "STORING"} |->
        CASE s = "STARTED"     -> 0
          [] s = "FETCHING"    -> 1
          [] s = "VALIDATING"  -> 2
          [] s = "NORMALIZING" -> 3
          [] s = "STORING"     -> 4]

PerChunk == {"VALIDATING", "NORMALIZING", "STORING"}

\* the persisted status of a row may change from s to t.  The actions persist
\* the last status of the lines they cover, so a move forward may pass over
\* statuses written in between.
Follows(s, t) ==
    CASE s = "NONE"       -> t = "STARTED"
      [] t = "FAILED"     -> s \notin {"COMPLETED", "FAILED"}
      [] t = "COMPLETED"  -> s = "STORING"
      [] OTHER            ->
            /\ s \in DOMAIN StatusRank
            /\ t \in DOMAIN StatusRank
            /\ \/ StatusRank[s] < StatusRank[t]
               \/ {s, t} \subseteq PerChunk

\* C30: for an invocation that acquired the lock, the persisted status
\* starts at STARTED, moves only forward along STARTED, FETCHING,
\* VALIDATING, NORMALIZING, STORING with re-entry among the last three,
\* goes to FAILED only from a status that is not terminal, and COMPLETED is
\* written only over STORING.
C30_StatusSequence ==
    [][\A p \in Procs :
          (inv[p].acquired /\ sync_logs'[p].status # sync_logs[p].status)
              => Follows(sync_logs[p].status, sync_logs'[p].status)]_vars

\* ---------------------------------------------------------------------------
\* Dates the validator lets through, as the normalizer stores them

\* validate_date reports no error on the field holding the text
DateAccepted(text) ==
    validate_date(ValidationResult, [scheduled_payment_date |-> text],
                  "scheduled_payment_date").is_valid

\* C40: every non-blank date text that validate_date accepts is turned by
\* the date normalizer into a calendar date (not null) with the year, month
\* and day the text spells.
C40_AcceptedDateIsStored ==
    ( /\ call.fn = "DateNormalizer._normalize_date" /\ call.calls = 1
      /\ strip(call.value.s) # <<>>
      /\ DateAccepted(call.value.s) ) =>
        LET clean == replace(strip(call.value.s), "-")
        IN  call.result = PyDate(ToNat(SubSeq(clean, 1, 4)),
                                 ToNat(SubSeq(clean, 5, 6)),
                                 ToNat(SubSeq(clean, 7, 8)))

\* ---------------------------------------------------------------------------
\* The row count against the rows the iterator yields

\* storage.py 158-168, get_data_iter: the chunks below the chunk count, one
\* at a time, a missing one skipped
RECURSIVE iter_chunks(_, _, _)
iter_chunks(ds, i, n) ==
    IF i >= n THEN <<>>
    ELSE (IF ds.chunk[i] # Nil THEN <<decompress(ds.chunk[i])>> ELSE <<>>)
            \o iter_chunks(ds, i + 1, n)

get_data_iter(ds) == iter_chunks(ds, 0, get_num_chunks(ds))

\* the rows of a list of chunks
RECURSIVE RowsIn(_)
RowsIn(chunks) ==
    IF chunks = <<>> THEN 0 ELSE Len(Head(chunks)) + RowsIn(Tail(chunks))

\* C37: at every instant, also while store_data_streaming writes a new
\* upload over an old one, get_row_count(t, l, f) is the number of rows
\* get_data_iter(t, l, f) would yield.
C37_RowCountMatchesIterator ==
    \A k \in StoreKeys :
        get_row_count(extbank[k]) = RowsIn(get_data_iter(extbank[k]))

\* ---------------------------------------------------------------------------
\* The invocation that does not acquire the lock

\* a step of invocation p taken without the lock key being its own
LoserStep(p) == inv'[p] # inv[p] /\ ~inv[p].acquired /\ ~inv'[p].acquired

\* C38: a sync invocation that does not acquire the lock writes nothing but
\* its own FAILED SyncLog row: it leaves the lock key, the staging tables,
\* the fact tables, the upload data and the rows of the other invocations
\* as they are.
C38_LoserWritesOnlyItsLog ==
    [][\A p \in Procs : LoserStep(p) =>
          /\ UNCHANGED <<lock, upload, staging_credit, staging_payment,
                         fact_credit, fact_payment>>
          /\ \A q \in Procs \ {p} : sync_logs'[q] = sync_logs[q]
          /\ sync_logs'[p] \in
                {sync_logs[p], SyncLog("FAILED", "Concurrent sync in progress")}]_vars

\* C38 witness: an invocation was rejected and has saved its FAILED row
\* while the holder of the key is in its pipeline with rows staged.
C38_Witness ==
    \E p \in Procs : \E q \in Procs \ {p} :
        /\ inv[p].pc = "rejected"
        /\ sync_logs[p] = SyncLog("FAILED", "Concurrent sync in progress")
        /\ lock[inv[p].loan_type] = q
        /\ InPipeline(q) /\ staging_credit # {}
        /\ ~UploadCleared(p)

\* ---------------------------------------------------------------------------
\* Uploads that the end-of-run cleanup deletes

\* the rows of a file type that invocation p has passed to validate_row
Iterated(p, ft) ==
    IF ft = "credit"
       THEN inv[p].valid_credit_count + inv[p].credit_error_count
       ELSE inv[p].valid_payment_count + inv[p].payment_error_count

\* the step in which invocation p runs _cleanup_redis
Cleans(p) ==
    /\ inv[p].pc \in {"abort_finish", "complete_finish"}
    /\ upload'[inv[p].loan_type] # upload[inv[p].loan_type]

\* C39: no uploaded row is deleted without having been validated: the rows
\* that the end-of-run cleanup of a sync deletes, stored while it was
\* running or before, are rows this sync has iterated, so of each file type
\* it deletes no more rows than it has passed to validate_row.
C39_CleanupDeletesOnlyIteratedRows ==
    [][\A p \in Procs : Cleans(p) =>
          \A ft \in FileTypes :
              upload[inv[p].loan_type][ft].count <= Iterated(p, ft)]_vars

\* ============================================================ error report
\* One invocation of sync followed through what it reports: the error
\* descriptors and failed rows it collects, the error summary of its
\* SyncLog, the ValidationError rows, the failed-row store and the metrics.

\* engine.py 165 and 224 (10000), 170 and 229 (50000): the sizes at which
\* the failed-row buffer and the error-descriptor buffer of a file type
\* stop growing, scaled down
MAX_FAILED_ROWS == 2
MAX_KEPT_ERRORS == 3

\* engine.py 165-166, 170-171: if len(buffer) < limit: buffer.append(item)
append_below_Always(buffer, item, limit) == Append(buffer, item)

append_below(buffer, item, limit) ==
    IF Len(buffer) < limit THEN Append(buffer, item) ELSE buffer

\* engine.py 156 and 219: global_row_idx += 1, for row i (from 1) of the
\* chunk that follows base rows
RowNumber_InChunk(base, i) == i

RowNumber(base, i) == base + i

\* base.py 12-20: the descriptor add_error builds carries the row_number
\* its ValidationResult was made with
descriptor(err, row_number) ==
    [row_number |-> row_number, field_name |-> err.field_name,
     error_type |-> err.error_type]

\* the local variables of one streaming phase (engine.py 141-148, 209-214)
NoErrors ==
    [global_row_idx |-> 0, valid_count |-> 0, error_count |-> 0,
     error_summary |-> <<>>, all_errors |-> <<>>, failed_rows |-> <<>>,
     valid_loan_ids |-> {}]

\* engine.py 167-171 and 226-230: for err in vr.errors
RECURSIVE count_errors(_, _, _)
count_errors(acc, errors, row_number) ==
    IF errors = <<>> THEN acc
    ELSE LET err_type == Head(errors).error_type
         IN  count_errors(
                [acc EXCEPT
                   !.error_summary = dict_set(@, err_type, dict_get(@, err_type, 0) + 1),
                   !.all_errors = append_below(@, descriptor(Head(errors), row_number),
                                               MAX_KEPT_ERRORS)],
                Tail(errors), row_number)

\* engine.py 164-166 and 223-225, 236-238: an invalid row is counted and
\* kept while the buffer has room
count_failed(acc, row) ==
    [acc EXCEPT !.error_count = @ + 1,
                !.failed_rows = append_below(@, row, MAX_FAILED_ROWS)]

\* engine.py 155-171: one row of a credit chunk
credit_row(acc, row, row_number, loan_type) ==
    LET vr      == credit_validate_row(row, loan_type)
        loan_id == get(row, "loan_account_number")
    IN  IF vr.is_valid
           THEN [acc EXCEPT !.valid_count = @ + 1,
                            !.valid_loan_ids =
                                IF loan_id # <<>> THEN @ \cup {loan_id} ELSE @]
           ELSE count_errors(count_failed(acc, row), vr.errors, row_number)

\* engine.py 218-251: one row of a payment chunk
payment_row(acc, row, row_number, loan_type, all_valid_loans) ==
    LET vr      == payment_validate_row(row, loan_type)
        loan_id == get(row, "loan_account_number")
    IN  IF ~vr.is_valid
           THEN count_errors(count_failed(acc, row), vr.errors, row_number)
        ELSE IF ~CrossCheck(loan_id, all_valid_loans)
           THEN count_errors(count_failed(acc, row),
                             <<[field_name |-> "loan_account_number",
                                error_type |-> "CROSS_REFERENCE"]>>,
                             row_number)
        ELSE [acc EXCEPT !.valid_count = @ + 1]

\* engine.py 152-193 and 216-270: for row in chunk, from row i of the chunk
\* on (the valid rows are normalized and inserted into staging, and the
\* valid count grows by their number)
RECURSIVE stream_chunk(_, _, _, _, _, _)
stream_chunk(acc, chunk, i, file_type, loan_type, all_valid_loans) ==
    IF i > Len(chunk) THEN [acc EXCEPT !.global_row_idx = @ + Len(chunk)]
    ELSE LET row_number == RowNumber(acc.global_row_idx, i)
             next == IF file_type = "credit"
                        THEN credit_row(acc, chunk[i], row_number, loan_type)
                        ELSE payment_row(acc, chunk[i], row_number, loan_type,
                                         all_valid_loans)
         IN  stream_chunk(next, chunk, i + 1, file_type, loan_type, all_valid_loans)

\* engine.py 290-294 and 345: {**credit_error_summary, **payment_error_summary};
\* a key of both dicts takes the value of the second
merge(first, second) ==
    [k \in DOMAIN first \cup DOMAIN second |->
        IF k \in DOMAIN second THEN second[k] ELSE first[k]]

\* engine.py 408-427, _save_errors_batched: one ValidationError row per
\* descriptor, referencing the SyncLog row as it is persisted then
RECURSIVE save_errors_batched(_, _, _, _)
save_errors_batched(rows, status, errors, file_type) ==
    IF errors = <<>> THEN rows
    ELSE save_errors_batched(
            Append(rows, [sync_log_status |-> status, file_type |-> file_type,
                          row_number |-> Head(errors).row_number,
                          field_name |-> Head(errors).field_name,
                          error_type |-> Head(errors).error_type]),
            status, Tail(errors), file_type)

\* storage.py 209-218, store_failed: RPUSH of every record
store_failed(list, records) == list \o records

\* engine.py 429-439, _store_failed_rows
store_failed_rows(store, failed_credit_rows, failed_payment_rows) ==
    [store EXCEPT !["credit"] = store_failed(@, failed_credit_rows),
                  !["payment_plan"] = store_failed(@, failed_payment_rows)]

\* sync_log.save(): the row takes the fields of the object
sync_log_save_Deferred(row, obj) == row

sync_log_save(row, obj) == obj

\* ------------------------------------------------------------ AuditSpec
\* sync is called once on a credit file and a payment file of a few rows;
\* any call of a collaborator inside the try block may raise, once.

\* rows a file of the bank is made of
GoodCredit ==
    [loan_account_number |-> <<"L", "B">>, customer_id |-> <<"7">>,
     customer_type |-> <<"I">>, loan_status_code |-> <<"A">>,
     original_loan_amount |-> <<"1", ".", "5">>,
     outstanding_principal_balance |-> <<"0">>]

BadCredit == [GoodCredit EXCEPT !.customer_type = <<>>,
                                !.original_loan_amount = <<"-", "1">>]

GoodPayment ==
    [loan_account_number |-> <<"L", "B">>, installment_number |-> <<"1">>,
     installment_amount |-> <<"1", ".", "5">>, principal_component |-> <<"0">>]

OrphanPayment == [GoodPayment EXCEPT !.loan_account_number = <<"L", "X">>]

BadPayment == [GoodPayment EXCEPT !.installment_amount = <<>>]

AuditCreditRows == {GoodCredit, BadCredit}

AuditPaymentRows == {GoodPayment, OrphanPayment, BadPayment}

\* a file has one row more than the failed-row buffer holds
MaxFileRows == MAX_FAILED_ROWS + 1

FilesOf(rows) == UNION { [1..n -> rows] : n \in 0..MaxFileRows }

NoLog == [status |-> "none", error_count |-> 0, error_summary |-> <<>>]

NoMetrics == [sync_operations_total |-> [s \in {"COMPLETED", "FAILED"} |-> 0],
              sync_duration_seconds |-> 0]

AuditInit ==
    /\ NoSync
    /\ extbank = <<>>
    /\ call \in
          { [fn |-> "SyncEngine.sync", pc |-> "start", loan_type |-> lt,
             acquired |-> a, files |-> [credit |-> cf, payment_plan |-> pf],
             existing_loan_ids |-> {}, all_valid_loans |-> {}, chunk_i |-> 0,
             credit |-> NoErrors, payment_plan |-> NoErrors,
             sync_log |-> NoLog, row |-> NoLog,
             validation_errors |-> <<>>,
             failed |-> [ft \in FileTypes |-> <<>>],
             metrics |-> NoMetrics, raised |-> FALSE, aborted |-> FALSE,
             returned |-> "none"] :
                lt \in LoanTypes, a \in BOOLEAN,
                cf \in FilesOf(AuditCreditRows), pf \in FilesOf(AuditPaymentRows) }

IsSync == call.fn = "SyncEngine.sync"

\* an exception inside the try block: control goes to the except clause
Raised(c) == [c EXCEPT !.pc = "except", !.raised = TRUE]

\* sync_log.save()
Saved(c) == [c EXCEPT !.row = sync_log_save(c.row, c.sync_log)]

\* engine.py 448-450, _update_status
update_status(c, status) ==
    Saved([c EXCEPT !.sync_log.status = status])

\* sync_operations_total.labels(status=...).inc()
inc(c, status) ==
    [c EXCEPT !.metrics.sync_operations_total[status] = @ + 1]

\* sync_duration_seconds.observe(...)
observe(c) == [c EXCEPT !.metrics.sync_duration_seconds = @ + 1]

\* engine.py 101-114: the lock was not acquired
AuditReject ==
    /\ IsSync /\ call.pc = "start" /\ ~call.acquired
    /\ call' = [Saved([call EXCEPT
                  !.sync_log = [status |-> "FAILED", error_count |-> 0,
                                error_summary |->
                                   [reason |-> "Concurrent sync in progress"]]])
                EXCEPT !.pc = "done", !.returned = "FAILED"]
    /\ UNCHANGED <<sync_vars, extbank>>

\* engine.py 116-150: STARTED, the row counts, FETCHING, VALIDATING
AuditStart ==
    /\ IsSync /\ call.pc = "start" /\ call.acquired
    /\ LET started == update_status(call, "STARTED")
       IN  \/ call' = [update_status(started, "VALIDATING") EXCEPT !.pc = "credit"]
           \/ call' = Raised(started)
           \/ call' = Raised(update_status(started, "FETCHING"))
    /\ UNCHANGED <<sync_vars, extbank>>

\* whether the chunk had a row that passes validation (if chunk_valid)
HasValid(before, after) ==
    after.valid_count > before.valid_count

\* engine.py 152-193: one chunk of the credit file
AuditCredit ==
    /\ IsSync /\ call.pc = "credit"
    /\ call.chunk_i < NumChunks(call.files["credit"])
    /\ \E acc \in {stream_chunk(call.credit,
                                 chunk_of(call.files["credit"], call.chunk_i),
                                 1, "credit", call.loan_type, {})} :
       \E seen \in {[call EXCEPT !.credit = acc, !.chunk_i = @ + 1]},
          unstored \in {[call EXCEPT
                           !.credit = [acc EXCEPT !.valid_count =
                                                      call.credit.valid_count],
                           !.chunk_i = @ + 1]} :
          \/ call' = IF HasValid(call.credit, acc)
                        THEN update_status(seen, "STORING")
                        ELSE seen
          \/ /\ HasValid(call.credit, acc)
             /\ \/ call' = Raised(unstored)
                \/ call' = Raised(update_status(unstored, "NORMALIZING"))
    /\ UNCHANGED <<sync_vars, extbank>>

\* engine.py 200-214: the credit file is exhausted
AuditPaymentStart ==
    /\ IsSync /\ call.pc = "credit"
    /\ call.chunk_i = NumChunks(call.files["credit"])
    /\ \/ call' = [call EXCEPT
                     !.pc = "payment", !.chunk_i = 0,
                     !.all_valid_loans =
                         AllValidLoans(call.credit.valid_loan_ids,
                                       call.existing_loan_ids)]
       \/ call' = Raised(call)
    /\ UNCHANGED <<sync_vars, extbank>>

\* engine.py 216-270: one chunk of the payment file
AuditPayment ==
    /\ IsSync /\ call.pc = "payment"
    /\ call.chunk_i < NumChunks(call.files["payment_plan"])
    /\ \E acc \in {stream_chunk(call.payment_plan,
                                 chunk_of(call.files["payment_plan"], call.chunk_i),
                                 1, "payment_plan", call.loan_type,
                                 call.all_valid_loans)} :
          \/ call' = [call EXCEPT !.payment_plan = acc, !.chunk_i = @ + 1]
          \/ /\ HasValid(call.payment_plan, acc)
             /\ call' = Raised([call EXCEPT
                                  !.payment_plan =
                                      [acc EXCEPT !.valid_count =
                                                      call.payment_plan.valid_count],
                                  !.chunk_i = @ + 1])
    /\ UNCHANGED <<sync_vars, extbank>>

\* engine.py 277-296 and 316-347: the error rate is checked and the final
\* SyncLog is saved
AuditGate ==
    /\ IsSync /\ call.pc = "payment"
    /\ call.chunk_i = NumChunks(call.files["payment_plan"])
    /\ LET total_rows   == Len(call.files["credit"]) + Len(call.files["payment_plan"])
           valid_rows   == call.credit.valid_count + call.payment_plan.valid_count
           total_errors == call.credit.error_count + call.payment_plan.error_count
           summary      == merge(call.credit.error_summary,
                                 call.payment_plan.error_summary)
       IN  IF ErrorRateExceeds(total_rows, valid_rows)
              THEN \/ call' = [Saved([call EXCEPT
                                 !.sync_log = [status |-> "FAILED",
                                               error_count |-> total_errors,
                                               error_summary |->
                                                  merge([reason |-> "Error rate exceeds 50%. Aborting sync, old data preserved."],
                                                        summary)]])
                               EXCEPT !.pc = "abort_saved", !.aborted = TRUE]
                   \/ call' = Raised(call)
              ELSE \/ call' = [Saved([update_status(call, "STORING") EXCEPT
                                 !.sync_log = [status |-> "COMPLETED",
                                               error_count |-> total_errors,
                                               error_summary |-> summary]])
                               EXCEPT !.pc = "completed_saved"]
                   \/ call' = Raised(update_status(call, "STORING"))
    /\ UNCHANGED <<sync_vars, extbank>>

\* engine.py 298-300 and 349-351
AuditPersist ==
    /\ IsSync /\ call.pc \in {"abort_saved", "completed_saved"}
    /\ LET credit_saved ==
              [call EXCEPT !.validation_errors =
                  save_errors_batched(@, call.row.status,
                                      call.credit.all_errors, "credit")]
           both_saved ==
              [credit_saved EXCEPT !.validation_errors =
                  save_errors_batched(@, call.row.status,
                                      call.payment_plan.all_errors, "payment_plan")]
       IN  \/ call' = [both_saved EXCEPT
                         !.failed = store_failed_rows(@, call.credit.failed_rows,
                                                      call.payment_plan.failed_rows),
                         !.pc = IF call.pc = "abort_saved" THEN "abort_tail"
                                                           ELSE "completed_tail"]
           \/ call' = Raised(call)
           \/ call' = Raised(credit_saved)
           \/ call' = Raised(both_saved)
    /\ UNCHANGED <<sync_vars, extbank>>

\* engine.py 301-312: the end of the abort
AuditAbortEnd ==
    /\ IsSync /\ call.pc = "abort_tail"
    /\ \/ call' = [inc(call, "FAILED") EXCEPT !.pc = "done", !.returned = "FAILED"]
       \/ call' = Raised(call)
    /\ UNCHANGED <<sync_vars, extbank>>

\* engine.py 353-376: the end of a completed sync
AuditCompleteEnd ==
    /\ IsSync /\ call.pc = "completed_tail"
    /\ LET measured == observe(inc(call, "COMPLETED"))
       IN  \/ call' = [measured EXCEPT !.pc = "done", !.returned = "COMPLETED"]
           \/ call' = Raised(measured)
    /\ UNCHANGED <<sync_vars, extbank>>

\* engine.py 378-400: the except clause
AuditExcept ==
    /\ IsSync /\ call.pc = "except"
    /\ call' = [observe(inc(Saved([call EXCEPT
                    !.sync_log.status = "FAILED",
                    !.sync_log.error_summary = [exception |-> "str(e)"]]), "FAILED"))
                EXCEPT !.pc = "done", !.returned = "FAILED"]
    /\ UNCHANGED <<sync_vars, extbank>>

AuditNext ==
    \/ AuditReject
    \/ AuditStart
    \/ AuditCredit
    \/ AuditPaymentStart
    \/ AuditPayment
    \/ AuditGate
    \/ AuditPersist
    \/ AuditAbortEnd
    \/ AuditCompleteEnd
    \/ AuditExcept

AuditSpec == AuditInit /\ [][AuditNext]_vars

\* ------------------------------------------------------------ C31
\* what the run finds wrong with a row of a file: the errors of its field
\* validator, or for a payment row that passes it, the missing loan
RowErrors(ft, row) ==
    IF ft = "credit" THEN credit_validate_row(row, call.loan_type).errors
    ELSE LET vr == payment_validate_row(row, call.loan_type)
         IN  IF ~vr.is_valid THEN vr.errors
             ELSE IF get(row, "loan_account_number") \in call.all_valid_loans
                     THEN <<>>
                     ELSE <<[field_name |-> "loan_account_number",
                             error_type |-> "CROSS_REFERENCE"]>>

\* the errors of the first n rows of a file, each with the position of its row
RECURSIVE ErrorsUpTo(_, _)
ErrorsUpTo(ft, n) ==
    IF n = 0 THEN <<>>
    ELSE LET errs == RowErrors(ft, call.files[ft][n])
         IN  ErrorsUpTo(ft, n - 1) \o
                [i \in 1..Len(errs) |->
                    [row_number |-> n, field_name |-> errs[i].field_name,
                     error_type |-> errs[i].error_type]]

FoundIn(ft) == ErrorsUpTo(ft, Len(call.files[ft]))

OfKind(errs, k) == Cardinality({i \in 1..Len(errs) : errs[i].error_type = k})

KindsFound ==
    {FoundIn(ft)[i].error_type : ft \in {"credit"}, i \in 1..Len(FoundIn("credit"))}
        \cup {FoundIn("payment_plan")[i].error_type :
                 i \in 1..Len(FoundIn("payment_plan"))}

\* the final SyncLog of a completed or aborted sync has been saved
FinalLogSaved ==
    /\ IsSync /\ ~call.raised
    /\ call.pc \in {"abort_saved", "abort_tail", "completed_saved",
                    "completed_tail", "done"}
    /\ call.acquired

\* C31: in the SyncLog of a COMPLETED or error-rate-aborted sync,
\* error_summary[k] is, for each error kind k, the number of errors of kind
\* k found in this run in the credit file and the payment file together.
C31_SummaryCountsBothFiles ==
    FinalLogSaved =>
        \A k \in KindsFound :
            dict_get(call.row.error_summary, k, 0)
                = OfKind(FoundIn("credit"), k) + OfKind(FoundIn("payment_plan"), k)

\* ------------------------------------------------------------ C32
Persisted(ft, err) ==
    \E j \in 1..Len(call.validation_errors) :
        /\ call.validation_errors[j].file_type = ft
        /\ call.validation_errors[j].row_number = err.row_number
        /\ call.validation_errors[j].field_name = err.field_name
        /\ call.validation_errors[j].error_type = err.error_type

\* C32: after every terminal transition of a sync that acquired the lock
\* (COMPLETED, error-rate abort, exception path) the error descriptors
\* collected so far are persisted as ValidationError rows and the collected
\* failed rows are appended to the failed-row store.
C32_TerminalPersistsErrors ==
    (IsSync /\ call.acquired /\ call.returned # "none") =>
        \A ft \in FileTypes :
            /\ \A j \in 1..Len(call[ft].all_errors) :
                  Persisted(ft, call[ft].all_errors[j])
            /\ call.failed[ft] = call[ft].failed_rows

\* ------------------------------------------------------------ C33
\* C33: when a ValidationError row is created, the SyncLog row it
\* references has status COMPLETED or FAILED; none is written while the
\* log is STARTED, FETCHING, VALIDATING, NORMALIZING or STORING.
C33_ErrorsAfterFinalStatus ==
    IsSync =>
        \A j \in 1..Len(call.validation_errors) :
            call.validation_errors[j].sync_log_status \in {"COMPLETED", "FAILED"}

C33_Witness ==
    /\ IsSync /\ call.row.status = "COMPLETED"
    /\ \E j, k \in 1..Len(call.validation_errors) :
          /\ call.validation_errors[j].file_type = "credit"
          /\ call.validation_errors[k].file_type = "payment_plan"

\* ------------------------------------------------------------ C34
InvalidSoFar(ft) ==
    {i \in 1..call[ft].global_row_idx : RowErrors(ft, call.files[ft][i]) # <<>>}

\* C34: the failed-row buffer of a file type never holds more rows than
\* its limit and the error-descriptor buffer never more entries than its
\* limit; error_count counts every invalid row, kept or not.
C34_BuffersAreCapped ==
    IsSync =>
        \A ft \in FileTypes :
            /\ Len(call[ft].failed_rows) <= MAX_FAILED_ROWS
            /\ Len(call[ft].all_errors) <= MAX_KEPT_ERRORS
            /\ call[ft].error_count = Cardinality(InvalidSoFar(ft))
            /\ Len(call[ft].failed_rows) = Min(call[ft].error_count, MAX_FAILED_ROWS)

C34_Witness ==
    /\ IsSync
    /\ \E ft \in FileTypes :
          /\ call[ft].error_count > MAX_FAILED_ROWS
          /\ Len(call[ft].failed_rows) = MAX_FAILED_ROWS
          /\ Len(call[ft].all_errors) = MAX_KEPT_ERRORS
          /\ Len(ErrorsUpTo(ft, call[ft].global_row_idx)) > MAX_KEPT_ERRORS

\* ------------------------------------------------------------ C35
\* C35: the row_number of every error descriptor of a file type is the
\* position (from 1) of its row in the chunks streamed for that file type,
\* one after the other; it never decreases along the buffer, and starts
\* again at 1 for the payment file.
C35_RowNumberIsFilePosition ==
    IsSync =>
        \A ft \in FileTypes :
            LET kept  == call[ft].all_errors
                found == ErrorsUpTo(ft, call[ft].global_row_idx)
            IN  /\ Len(kept) <= Len(found)
                /\ \A j \in 1..Len(kept) : kept[j] = found[j]
                /\ \A j, k \in 1..Len(kept) :
                      j < k => kept[j].row_number <= kept[k].row_number

C35_Witness ==
    /\ IsSync
    /\ \E j \in 1..Len(call.credit.all_errors) :
          call.credit.all_errors[j].row_number > CHUNK_SIZE
    /\ \E j \in 1..Len(call.payment_plan.all_errors) :
          call.payment_plan.all_errors[j].row_number = 1
    /\ \E j \in 1..Len(call.payment_plan.all_errors) :
          call.payment_plan.all_errors[j].row_number > CHUNK_SIZE

\* ------------------------------------------------------------ C36
\* C36: a sync invocation that returns a terminal SyncLog has incremented
\* sync_operations_total once, under the returned status, and has recorded
\* one sync_duration_seconds observation.
C36_OneMetricPerSync ==
    (IsSync /\ call.returned # "none") =>
        /\ call.metrics.sync_operations_total =
              [s \in {"COMPLETED", "FAILED"} |-> IF s = call.returned THEN 1 ELSE 0]
        /\ call.metrics.sync_duration_seconds = 1

====
